---- MODULE Spec2Model ----
(***************************************************************************)
(* Statement-draft lifecycle of the finance tracker backend:               *)
(* post_statement_draft / revise_statement_draft / apply_statement_draft   *)
(* (backend/app/api/ai_routes.py) over the Supabase-backed repositories    *)
(* (accounts, categories, transactions, account_balance_events,            *)
(* daily_state, statement_drafts).                                         *)
(*                                                                         *)
(* The store is one budget of one user.  Python None is modelled by NoId   *)
(* (ids), NoneStr (strings) and NoDate (dates).  The category name         *)
(* "Прочее" is written "Prochee" (lower-cased "prochee").                  *)
(***************************************************************************)
EXTENDS Integers, Sequences, FiniteSets, TLC

VARIABLES
    accounts,      \* table accounts: set of [id, name, kind, run]
    categories,    \* table categories: set of [id, name, type, run]
    transactions,  \* table transactions: set of rows (run, op are history fields)
    events,        \* table account_balance_events
    daily_state,   \* table daily_state: date -> <<>> (no row) or <<cards, other>>
    draft,         \* the statement_drafts row (status "none": not created yet)
    nextId,        \* id generator of the store
    runs,          \* number of apply requests that passed the guard so far
    revisions,     \* number of revise requests so far
    req,           \* local state of the apply request in flight
    response       \* what the last request returned to the client

vars == <<accounts, categories, transactions, events, daily_state, draft,
          nextId, runs, revisions, req, response>>

store == <<accounts, categories, transactions, events, daily_state>>

-----------------------------------------------------------------------------
(* Bounds of the model *)

MaxOps == 2
MaxRuns == 2
MaxRevisions == 1
MaxDate == 2

(* Python None *)
NoId == 0
NoDate == 0
NoneStr == "<None>"

BadDate == -1

Dates == 1..MaxDate

-----------------------------------------------------------------------------
(* String helpers: str.lower() and str.strip() on the names of the model *)

Lower(s) ==
    CASE s = "Tinkoff" -> "tinkoff"
      [] s = "Cash" -> "cash"
      [] s = "Food" -> "food"
      [] s = "Prochee" -> "prochee"
      [] s = "PROCHEE" -> "prochee"
      [] s = "INCOME" -> "income"
      [] s = "COMMISSION" -> "commission"
      [] s = "Amount" -> "amount"
      [] s = "Debit" -> "debit"
      [] s = "Credit" -> "credit"
      [] OTHER -> s

Strip(s) == IF s = " " THEN "" ELSE s

\* (value or "")
OrEmpty(s) == IF s = NoneStr THEN "" ELSE s

\* (value or "").strip().lower()
Key(s) == Lower(Strip(OrEmpty(s)))

Max(S) == CHOOSE x \in S : \A y \in S : y <= x

Range(f) == {f[x] : x \in DOMAIN f}

-----------------------------------------------------------------------------
(* Name maps: a dict comprehension over the rows in created_at order, so a  *)
(* later row of the same lower-cased name wins.  Ids grow with creation.    *)

NameMap(rows) ==
    [k \in {Lower(r.name) : r \in rows} |->
        Max({r.id : r \in {x \in rows : Lower(x.name) = k}})]

_account_name_map(accs) == NameMap(accs)

_category_name_map(cats) == NameMap(cats)

\* dict.get(key): None when the key is absent
MapGet(m, k) == IF k \in DOMAIN m THEN m[k] ELSE NoId

\* m[k] = v
MapSet(m, k, v) == [x \in (DOMAIN m) \cup {k} |-> IF x = k THEN v ELSE m[x]]

-----------------------------------------------------------------------------
(* _map_operation_type *)

\* faulty variant: commission is not mapped to fee
_map_operation_type_KeepsCommission(t) ==
    IF t = "" THEN NoneStr ELSE Lower(t)

_map_operation_type(t) ==
    IF t = "" THEN NoneStr
    ELSE IF Lower(t) = "commission" THEN "fee"
    ELSE Lower(t)

-----------------------------------------------------------------------------
(* Entity resolver: _normalize_operations *)

\* faulty variant: a kind other than cash and bank is kept
ClampKind_KeepsOther(t) == IF t = NoneStr \/ t = "" THEN "bank" ELSE Lower(t)

ClampKind(t) ==
    LET k == IF t = NoneStr \/ t = "" THEN "bank" ELSE Lower(t)
    IN IF k \in {"cash", "bank"} THEN k ELSE "bank"

SeqKeys(s) == {Lower(Strip(s[j].name)) : j \in DOMAIN s}

RECURSIVE MissingAccountsFromCreate(_, _, _)
MissingAccountsFromCreate(items, account_map, acc) ==
    IF items = <<>> THEN acc
    ELSE LET item == Head(items)
             name == Strip(OrEmpty(item.name))
         IN IF name = "" \/ Lower(name) \in DOMAIN account_map
                \/ Lower(name) \in SeqKeys(acc)
            THEN MissingAccountsFromCreate(Tail(items), account_map, acc)
            ELSE MissingAccountsFromCreate(Tail(items), account_map,
                     Append(acc, [name |-> name, kind |-> ClampKind(item.type)]))

RECURSIVE MissingCategoriesFromCreate(_, _, _)
MissingCategoriesFromCreate(items, category_map, acc) ==
    IF items = <<>> THEN acc
    ELSE LET item == Head(items)
             name == Strip(OrEmpty(item.name))
         IN IF name = "" \/ Lower(name) \in DOMAIN category_map
                \/ Lower(name) \in SeqKeys(acc)
            THEN MissingCategoriesFromCreate(Tail(items), category_map, acc)
            ELSE MissingCategoriesFromCreate(Tail(items), category_map,
                     Append(acc, [name |-> name, type |-> "expense"]))

\* faulty variant: an unresolved account is listed once per operation
RECURSIVE MissingAccountsFromOps_NoDedup(_, _, _)
MissingAccountsFromOps_NoDedup(ops, account_map, acc) ==
    IF ops = <<>> THEN acc
    ELSE LET item == Head(ops)
             account_name == Strip(OrEmpty(item.account))
         IN IF account_name # "" /\ MapGet(account_map, Lower(account_name)) = NoId
            THEN MissingAccountsFromOps_NoDedup(Tail(ops), account_map,
                     Append(acc, [name |-> item.account, kind |-> "bank"]))
            ELSE MissingAccountsFromOps_NoDedup(Tail(ops), account_map, acc)

RECURSIVE MissingAccountsFromOps(_, _, _)
MissingAccountsFromOps(ops, account_map, acc) ==
    IF ops = <<>> THEN acc
    ELSE LET item == Head(ops)
             account_name == Strip(OrEmpty(item.account))
             account_key == Lower(account_name)
         IN IF account_name # "" /\ MapGet(account_map, account_key) = NoId
               /\ account_key \notin SeqKeys(acc)
            THEN MissingAccountsFromOps(Tail(ops), account_map,
                     Append(acc, [name |-> item.account, kind |-> "bank"]))
            ELSE MissingAccountsFromOps(Tail(ops), account_map, acc)

RECURSIVE MissingCategoriesFromOps(_, _, _)
MissingCategoriesFromOps(ops, category_map, acc) ==
    IF ops = <<>> THEN acc
    ELSE LET item == Head(ops)
             category_name == Strip(OrEmpty(item.category))
             category_key == Lower(category_name)
         IN IF category_name # "" /\ MapGet(category_map, category_key) = NoId
               /\ category_key \notin SeqKeys(acc)
            THEN MissingCategoriesFromOps(Tail(ops), category_map,
                     Append(acc, [name |-> item.category, type |-> "expense"]))
            ELSE MissingCategoriesFromOps(Tail(ops), category_map, acc)

\* faulty variant: the name of any counterparty of a transfer is kept
NormalizeOne_AnyCounterparty(item, account_map, category_map) ==
    LET account_name == Strip(OrEmpty(item.account))
        category_name == Strip(OrEmpty(item.category))
        mapped_type == _map_operation_type(Lower(OrEmpty(item.type)))
        counterparty == Strip(OrEmpty(item.counterparty))
        to_found == mapped_type = "transfer" /\ counterparty # ""
    IN [date |-> item.date,
        type |-> mapped_type,
        kind |-> "normal",
        amount |-> item.amount,
        account_id |-> IF account_name # ""
                       THEN MapGet(account_map, Lower(account_name)) ELSE NoId,
        to_account_id |-> IF to_found
                          THEN MapGet(account_map, Lower(counterparty)) ELSE NoId,
        category_id |-> IF category_name # ""
                        THEN MapGet(category_map, Lower(category_name)) ELSE NoId,
        debt |-> NoneStr,
        account_name |-> item.account,
        to_account_name |-> IF to_found THEN counterparty ELSE NoneStr,
        category_name |-> item.category]

NormalizeOne(item, account_map, category_map) ==
    LET account_name == Strip(OrEmpty(item.account))
        category_name == Strip(OrEmpty(item.category))
        mapped_type == _map_operation_type(Lower(OrEmpty(item.type)))
        counterparty == Strip(OrEmpty(item.counterparty))
        to_found == mapped_type = "transfer" /\ counterparty # ""
                    /\ Lower(counterparty) \in DOMAIN account_map
    IN [date |-> item.date,
        type |-> mapped_type,
        kind |-> "normal",
        amount |-> item.amount,
        account_id |-> IF account_name # ""
                       THEN MapGet(account_map, Lower(account_name)) ELSE NoId,
        to_account_id |-> IF to_found
                          THEN account_map[Lower(counterparty)] ELSE NoId,
        category_id |-> IF category_name # ""
                        THEN MapGet(category_map, Lower(category_name)) ELSE NoId,
        debt |-> NoneStr,
        account_name |-> item.account,
        to_account_name |-> IF to_found THEN counterparty ELSE NoneStr,
        category_name |-> item.category]

_normalize_operations(draft_payload, accs, cats) ==
    LET account_map == _account_name_map(accs)
        category_map == _category_name_map(cats)
        ops == draft_payload.operations
    IN [normalized |-> [j \in DOMAIN ops |->
                            NormalizeOne(ops[j], account_map, category_map)],
        missing_accounts |->
            MissingAccountsFromOps(ops, account_map,
                MissingAccountsFromCreate(draft_payload.accounts_to_create,
                                          account_map, <<>>)),
        missing_categories |->
            MissingCategoriesFromOps(ops, category_map,
                MissingCategoriesFromCreate(draft_payload.categories_to_create,
                                            category_map, <<>>))]

-----------------------------------------------------------------------------
(* Strict validation of apply: _validate_apply_operations.  The result is   *)
(* NoError or the first violation [reason, operation_index, field].         *)

NoError == [reason |-> "ok", operation_index |-> 0, field |-> ""]

Invalid(index, field) ==
    [reason |-> "invalid_operation_payload", operation_index |-> index,
     field |-> field]

MissingNames(missing) ==
    {Key(missing[j].name) : j \in {x \in DOMAIN missing : Key(missing[x].name) # ""}}

\* the check of one operation; "" when it passes
ValidateOne(item, account_map, category_map, missing_account_names, missing_category_names) ==
    LET account_ids == Range(account_map)
        category_ids == Range(category_map)
        account_name == Key(item.account_name)
        to_account_name == Key(item.to_account_name)
        category_name == Key(item.category_name)
    IN  IF item.date = NoDate THEN "date"
        ELSE IF item.date = BadDate THEN "date"
        ELSE IF item.amount.t \in {"str", "bool"} THEN "amount"
        ELSE IF item.amount.t # "num" THEN "amount"
        ELSE IF item.type = NoneStr \/ item.type = "" THEN "type"
        ELSE IF item.type \notin {"income", "expense", "transfer", "fee"} THEN "type"
        ELSE IF item.account_id # NoId /\ item.account_id \notin account_ids
             THEN "account_id"
        ELSE IF item.account_id = NoId /\ account_name # ""
                /\ account_name \notin DOMAIN account_map
                /\ account_name \notin missing_account_names
             THEN "account_name"
        ELSE IF item.account_id = NoId /\ account_name = "" THEN "account_ref"
        ELSE IF item.type = "transfer" /\ item.to_account_id # NoId
                /\ item.to_account_id \notin account_ids
             THEN "to_account_id"
        ELSE IF item.type = "transfer" /\ item.to_account_id = NoId
                /\ to_account_name # ""
                /\ to_account_name \notin DOMAIN account_map
                /\ to_account_name \notin missing_account_names
             THEN "to_account_name"
        ELSE IF item.type = "transfer" /\ item.to_account_id = NoId
                /\ to_account_name = ""
             THEN "to_account_ref"
        ELSE IF item.type \in {"expense", "fee"} /\ item.category_id # NoId
                /\ item.category_id \notin category_ids
             THEN "category_id"
        ELSE IF item.type \in {"expense", "fee"} /\ item.category_id = NoId
                /\ category_name # ""
                /\ category_name \notin DOMAIN category_map
                /\ category_name \notin missing_category_names
             THEN "category_name"
        ELSE ""

\* faulty variant: only the first operation is validated
ValidateFrom_FirstOnly(index, txs, account_map, category_map, man, mcn) ==
    LET field == ValidateOne(txs[1], account_map, category_map, man, mcn)
    IN IF field # "" THEN Invalid(1, field) ELSE NoError

RECURSIVE ValidateFrom(_, _, _, _, _, _)
ValidateFrom(index, txs, account_map, category_map, man, mcn) ==
    IF index > Len(txs) THEN NoError
    ELSE LET field == ValidateOne(txs[index], account_map, category_map, man, mcn)
         IN IF field # "" THEN Invalid(index, field)
            ELSE ValidateFrom(index + 1, txs, account_map, category_map, man, mcn)

_validate_apply_operations(txs, account_map, category_map, missing_accounts, missing_categories) ==
    IF txs = <<>>
    THEN [reason |-> "empty_operations", operation_index |-> 0, field |-> ""]
    ELSE ValidateFrom(1, txs, account_map, category_map,
                      MissingNames(missing_accounts),
                      MissingNames(missing_categories))

-----------------------------------------------------------------------------
(* Inputs: what the LLM can return for a statement (a payload that passes   *)
(* the response contract), drawn from small sets.                           *)

Amount500 == [t |-> "num", v |-> 500]

RawOps ==
    [date : {1}, amount : {Amount500},
     type : {"income", "expense", "transfer", "commission"},
     account : {"Tinkoff", " "}, category : {NoneStr, "Food"},
     counterparty : {"Cash"}]

OpSeqs == UNION {[1..n -> RawOps] : n \in 1..MaxOps}

NoDebts == [present |-> FALSE, date |-> NoDate,
            credit_cards_total |-> 0, people_debts_total |-> 0]

DebtsBlocks ==
    {NoDebts,
     [present |-> TRUE, date |-> MaxDate,
      credit_cards_total |-> 5, people_debts_total |-> 7],
     [present |-> TRUE, date |-> MaxDate,
      credit_cards_total |-> -1, people_debts_total |-> 0]}

AdjustmentLists ==
    {<<>>,
     <<[account_name |-> "tinkoff", date |-> 1, delta |-> 3]>>,
     <<[account_name |-> "tinkoff", date |-> 1, delta |-> 3],
       [account_name |-> "Ghost", date |-> 1, delta |-> 3]>>}

LLMPayloads ==
    [operations : OpSeqs, accounts_to_create : {<<>>},
     categories_to_create : {<<>>}, debts : DebtsBlocks,
     balance_adjustments : AdjustmentLists]

\* what the LLM returns on a revise: one operation, no debts, no adjustments
RevisePayloads ==
    {p \in LLMPayloads : Len(p.operations) = 1 /\ ~p.debts.present
                         /\ p.balance_adjustments = <<>>}

\* create_category writes no type: the column's default in the store
DefaultCategoryType == "expense"

-----------------------------------------------------------------------------
(* The draft row and the request state *)

NoApplyError == [reason |-> "", operation_index |-> 0, field |-> "", message |-> ""]

NoDraft ==
    [status |-> "none", ops |-> <<>>, missing_accounts |-> <<>>,
     missing_categories |-> <<>>, debts |-> NoDebts,
     balance_adjustments |-> <<>>, llm_error |-> FALSE,
     apply_error |-> NoApplyError]

\* the stored draft_payload for an LLM payload p annotated by the resolver
DraftPayloadOf(p, accs, cats) ==
    LET r == _normalize_operations(p, accs, cats)
    IN [status |-> "draft", ops |-> r.normalized, missing_accounts |-> r.missing_accounts,
        missing_categories |-> r.missing_categories, debts |-> p.debts,
        balance_adjustments |-> p.balance_adjustments, llm_error |-> FALSE,
        apply_error |-> NoApplyError]

NoPrevious == [present |-> FALSE, cards |-> 0, other |-> 0]

IdleReq ==
    [pc |-> "idle", run |-> 0, i |-> 0, payload |-> NoDraft, ops |-> <<>>,
     account_map |-> <<>>, category_map |-> <<>>,
     created_transaction_ids |-> {}, created_adjustment_event_ids |-> {},
     created_account_ids |-> {}, created_category_ids |-> {},
     previous_debts |-> NoPrevious, exc |-> "", message |-> "",
     attempted |-> {}, before |-> <<>>]

\* the request is over: the handler's locals are gone; run, exc, attempted and
\* before (the store when the run began) stay as the history of the last run
Exit(r) ==
    [IdleReq EXCEPT !.run = r.run, !.exc = r.exc, !.attempted = r.attempted,
                    !.before = r.before]

NoResponse ==
    [kind |-> "none", code |-> 0, reason |-> "", operation_index |-> 0,
     field |-> "", message |-> "", run |-> 0]

\* JSONResponse built by _statement_apply_error_response
_statement_apply_error_response(reason, index, field, message, code, run) ==
    [kind |-> "statement_apply_failed", code |-> code, reason |-> reason,
     operation_index |-> index, field |-> field, message |-> message,
     run |-> run]

\* an HTTPException (or another exception) that leaves the handler
Raised(code, message, run) ==
    [kind |-> "exception", code |-> code, reason |-> "", operation_index |-> 0,
     field |-> "", message |-> message, run |-> run]

-----------------------------------------------------------------------------
(* Initial store: a budget with some of these accounts and categories and   *)
(* one daily_state row with debt totals.                                    *)

InitAccounts ==
    {[id |-> 1, name |-> "Tinkoff", kind |-> "bank", run |-> 0],
     [id |-> 2, name |-> "Cash", kind |-> "cash", run |-> 0]}

InitCategories ==
    {[id |-> 3, name |-> "Food", type |-> "expense", run |-> 0],
     [id |-> 4, name |-> "PROCHEE", type |-> "expense", run |-> 0]}

NoRow == [present |-> FALSE, cards |-> 0, other |-> 0]

Init ==
    /\ accounts \in {{}, InitAccounts}
    /\ categories \in {{}, InitCategories}
    /\ transactions = {}
    /\ events = {}
    /\ daily_state = [d \in Dates |->
                        IF d = 1 THEN [present |-> TRUE, cards |-> 3, other |-> 4]
                        ELSE NoRow]
    /\ draft = NoDraft
    /\ nextId = 5
    /\ runs = 0
    /\ revisions = 0
    /\ req = IdleReq
    /\ response = NoResponse

-----------------------------------------------------------------------------
(* Repository helpers *)

\* faulty variant: only a row of the target date itself is read
get_debts_as_of_SameDateOnly(ds, target_date) ==
    IF ds[target_date].present
    THEN [present |-> TRUE, cards |-> ds[target_date].cards,
          other |-> ds[target_date].other]
    ELSE [present |-> TRUE, cards |-> 0, other |-> 0]

\* get_debts_as_of: the row of the greatest date <= target_date, else zeros
get_debts_as_of(ds, target_date) ==
    LET ds_dates == {d \in DOMAIN ds : d <= target_date /\ ds[d].present}
    IN IF ds_dates = {} THEN [present |-> TRUE, cards |-> 0, other |-> 0]
       ELSE [present |-> TRUE, cards |-> ds[Max(ds_dates)].cards,
             other |-> ds[Max(ds_dates)].other]

\* upsert_debts rejects negative totals with an HTTPException (422)
UpsertDebtsRejected(credit_cards, people_debts) ==
    credit_cards < 0 \/ people_debts < 0

\* upsert_debts: the row written for target_date
UpsertDebtsRow(ds, target_date, credit_cards, people_debts) ==
    [ds EXCEPT ![target_date] =
        [present |-> TRUE, cards |-> credit_cards, other |-> people_debts]]

\* _ensure_category_matches_transaction: "" or the detail of the HTTPException
CategoryRejection(cats, category_id, tx_type) ==
    IF category_id = NoId THEN "Category is required"
    ELSE IF ~\E c \in cats : c.id = category_id THEN "Category not found"
    ELSE LET c == CHOOSE x \in cats : x.id = category_id
             expected_type == IF tx_type = "fee" THEN "expense" ELSE tx_type
         IN IF c.type # expected_type
            THEN "Category type must match transaction type"
            ELSE ""

\* faulty variant: a transfer from an account to itself is not rejected
TxRejection_AllowsSameAccount(accs, cats, p) ==
    IF p.type = "transfer" /\ p.kind = "transfer"
    THEN IF p.account_id = NoId \/ p.to_account_id = NoId
         THEN "account_id and to_account_id are required for transfers"
         ELSE IF p.category_id # NoId THEN "Transfers cannot have a category"
         ELSE ""
    ELSE "Transfers must have kind=transfer"

\* the checks of create_transaction before its insert: "" or the detail of
\* the HTTPException it raises
TxRejection(accs, cats, p) ==
    IF p.kind \notin {"normal", "transfer", "goal_transfer", "debt"}
    THEN "Invalid transaction kind"
    ELSE IF p.type = "transfer" /\ p.kind # "transfer"
    THEN "Transfers must have kind=transfer"
    ELSE IF p.type \in {"income", "expense", "fee"} /\ p.kind = "transfer"
    THEN "Income/expense cannot have kind=transfer"
    ELSE IF p.type = "transfer"
    THEN IF p.account_id = NoId \/ p.to_account_id = NoId
         THEN "account_id and to_account_id are required for transfers"
         ELSE IF p.account_id = p.to_account_id
         THEN "Transfer accounts must be different"
         ELSE IF ~\E a \in accs : a.id = p.account_id
         THEN "account not found for budget"
         ELSE IF ~\E a \in accs : a.id = p.to_account_id
         THEN "to_account not found for budget"
         ELSE IF p.category_id # NoId
         THEN "Transfers cannot have a category"
         ELSE ""
    ELSE IF p.type \in {"income", "expense", "fee"}
    THEN IF p.account_id = NoId
         THEN "account_id is required for income/expense/fee"
         ELSE IF p.to_account_id # NoId
         THEN "to_account_id must be null for income/expense/fee"
         ELSE IF ~\E a \in accs : a.id = p.account_id
         THEN "account not found for budget"
         ELSE CategoryRejection(cats, p.category_id, p.type)
    ELSE "Invalid transaction type"

\* the balance events create_transaction writes for transaction tx
TxEvents(tx, firstId) ==
    IF tx.type = "transfer"
    THEN {[id |-> firstId, transaction_id |-> tx.id, account_id |-> tx.account_id,
           delta |-> -tx.amount.v, reason |-> "transfer", date |-> tx.date,
           run |-> tx.run],
          [id |-> firstId + 1, transaction_id |-> tx.id,
           account_id |-> tx.to_account_id, delta |-> tx.amount.v,
           reason |-> "transfer", date |-> tx.date, run |-> tx.run]}
    ELSE {[id |-> firstId, transaction_id |-> tx.id, account_id |-> tx.account_id,
           delta |-> IF tx.type = "income" THEN tx.amount.v ELSE -tx.amount.v,
           reason |-> "transaction", date |-> tx.date, run |-> tx.run]}

-----------------------------------------------------------------------------
(* post_statement_draft *)

\* the LLM answered with a payload that passes the response contract
PostStatementDraft ==
    /\ req.pc = "idle"
    /\ draft.status = "none"
    /\ \E p \in LLMPayloads :
          draft' = [DraftPayloadOf(p, accounts, categories) EXCEPT
                       !.status = "draft"]
    /\ response' = [NoResponse EXCEPT !.kind = "ok", !.code = 200]
    /\ UNCHANGED <<store, nextId, runs, revisions, req>>

\* LLMError or contract violation: the handler reads exc.raw_response, which
\* LLMError does not have, or calls create_statement_draft(..., status="failed"),
\* a parameter create_statement_draft does not have; no row is stored
PostStatementDraftFails ==
    /\ req.pc = "idle"
    /\ draft.status = "none"
    /\ response' = Raised(500, "post_statement_draft failed", 0)
    /\ UNCHANGED <<store, draft, nextId, runs, revisions, req>>

-----------------------------------------------------------------------------
(* revise_statement_draft: no check of the draft's status *)

\* faulty variant: the new payload is stored, the status is left as it was
Revise_KeepsStatus ==
    /\ req.pc = "idle"
    /\ draft.status # "none"
    /\ revisions < MaxRevisions
    /\ revisions' = revisions + 1
    /\ \E p \in RevisePayloads :
          draft' = [DraftPayloadOf(p, accounts, categories) EXCEPT
                       !.status = draft.status]
    /\ response' = [NoResponse EXCEPT !.kind = "ok", !.code = 200]
    /\ UNCHANGED <<store, nextId, runs, req>>

Revise ==
    /\ req.pc = "idle"
    /\ draft.status # "none"
    /\ revisions < MaxRevisions
    /\ revisions' = revisions + 1
    /\ \E p \in RevisePayloads :
          draft' = [DraftPayloadOf(p, accounts, categories) EXCEPT
                       !.status = "revised"]
    /\ response' = [NoResponse EXCEPT !.kind = "ok", !.code = 200]
    /\ UNCHANGED <<store, nextId, runs, req>>

\* the revised payload violates the response contract
ReviseContractViolation ==
    /\ req.pc = "idle"
    /\ draft.status # "none"
    /\ revisions < MaxRevisions
    /\ revisions' = revisions + 1
    /\ draft' = [NoDraft EXCEPT !.status = "failed", !.llm_error = TRUE]
    /\ response' = Raised(400, "LLM response does not match contract", 0)
    /\ UNCHANGED <<store, nextId, runs, req>>

\* LLMError: logger.error reads exc.raw_response, which LLMError does not have;
\* the AttributeError leaves the handler before update_statement_draft
ReviseLLMError ==
    /\ req.pc = "idle"
    /\ draft.status # "none"
    /\ revisions < MaxRevisions
    /\ revisions' = revisions + 1
    /\ response' = Raised(500, "AttributeError", 0)
    /\ UNCHANGED <<store, draft, nextId, runs, req>>

-----------------------------------------------------------------------------
(* apply_statement_draft: the guard (step 1) *)

ApplyNotConfirmed ==
    /\ req.pc = "idle"
    /\ response' = Raised(400, "Confirmation required", 0)
    /\ UNCHANGED <<store, draft, nextId, runs, revisions, req>>

\* get_statement_draft finds no row
ApplyNotFound ==
    /\ req.pc = "idle"
    /\ draft.status = "none"
    /\ response' = Raised(404, "Draft not found", 0)
    /\ UNCHANGED <<store, draft, nextId, runs, revisions, req>>

ApplyAlreadyApplied ==
    /\ req.pc = "idle"
    /\ draft.status = "applied"
    /\ response' = _statement_apply_error_response(
                       "already_applied", 0, "", "", 409, 0)
    /\ UNCHANGED <<store, draft, nextId, runs, revisions, req>>

\* faulty variant: the stored apply_error is not read
ApplyAlreadyFailed_IgnoresStoredError ==
    /\ req.pc = "idle"
    /\ draft.status = "failed"
    /\ response' = _statement_apply_error_response("draft_failed", 0, "", "", 409, 0)
    /\ UNCHANGED <<store, draft, nextId, runs, revisions, req>>

\* stored_error = payload.get("apply_error") or {}
ApplyAlreadyFailed ==
    /\ req.pc = "idle"
    /\ draft.status = "failed"
    /\ response' =
          IF draft.apply_error = NoApplyError
          THEN _statement_apply_error_response("draft_failed", 0, "", "", 409, 0)
          ELSE _statement_apply_error_response(
                   draft.apply_error.reason, draft.apply_error.operation_index,
                   draft.apply_error.field, draft.apply_error.message, 409, 0)
    /\ UNCHANGED <<store, draft, nextId, runs, revisions, req>>

-----------------------------------------------------------------------------
(* apply_statement_draft: strict validation (step 2) *)

\* _normalize_amount: round(float(raw_amount), 2); the amounts of the model are
\* whole units, so the value stays and the number becomes a float
_normalize_amount(a) == [t |-> "float", v |-> a.v]

_normalize_statement_transactions(txs) ==
    [j \in DOMAIN txs |-> [txs[j] EXCEPT !.amount = _normalize_amount(@)]]

ValidationOf(d, accs, cats) ==
    _validate_apply_operations(d.ops, _account_name_map(accs),
                               _category_name_map(cats),
                               d.missing_accounts, d.missing_categories)

\* faulty variant: the missing accounts are created before the categories
AfterValidation_AccountsFirst(d) ==
    IF d.missing_accounts # <<>> THEN "accounts"
    ELSE IF d.missing_categories # <<>> THEN "categories"
    ELSE "reload"

AfterValidation(d) ==
    IF d.missing_categories # <<>> THEN "categories"
    ELSE IF d.missing_accounts # <<>> THEN "accounts"
    ELSE "reload"

AfterCategories(d) ==
    IF d.missing_accounts # <<>> THEN "accounts" ELSE "reload"

\* faulty variant: the balance adjustments are skipped
AfterTransactions_SkipsAdjustments(d) ==
    IF d.debts.present THEN "debts" ELSE "commit"

AfterTransactions(d) ==
    IF d.balance_adjustments # <<>> THEN "adjust"
    ELSE IF d.debts.present THEN "debts"
    ELSE "commit"

AfterAdjustments(d) ==
    IF d.debts.present THEN "debts" ELSE "commit"

\* faulty variant: the status "applied" is not rejected
ApplyGuardPassed_IgnoresApplied ==
    /\ req.pc = "idle"
    /\ draft.status \in {"draft", "revised", "applied"}
    /\ runs < MaxRuns

ApplyGuardPassed ==
    /\ req.pc = "idle"
    /\ draft.status \in {"draft", "revised"}
    /\ runs < MaxRuns

ApplyValidationFails ==
    /\ ApplyGuardPassed
    /\ LET validation_error == ValidationOf(draft, accounts, categories)
       IN /\ validation_error # NoError
          /\ runs' = runs + 1
          /\ draft' = [draft EXCEPT
                          !.status = "failed",
                          !.apply_error =
                              [reason |-> validation_error.reason,
                               operation_index |-> validation_error.operation_index,
                               field |-> validation_error.field,
                               message |-> ""]]
          /\ response' = _statement_apply_error_response(
                             validation_error.reason,
                             validation_error.operation_index,
                             validation_error.field, "", 400, runs + 1)
    /\ req' = [IdleReq EXCEPT !.run = runs + 1, !.before = store]
    /\ UNCHANGED <<store, nextId, revisions>>

ApplyValidationPasses ==
    /\ ApplyGuardPassed
    /\ ValidationOf(draft, accounts, categories) = NoError
    /\ runs' = runs + 1
    /\ req' = [IdleReq EXCEPT
                  !.pc = AfterValidation(draft),
                  !.run = runs + 1,
                  !.i = 1,
                  !.payload = draft,
                  !.ops = _normalize_statement_transactions(draft.ops),
                  !.account_map = _account_name_map(accounts),
                  !.category_map = _category_name_map(categories),
                  !.before = store]
    /\ response' = NoResponse
    /\ UNCHANGED <<store, draft, nextId, revisions>>

-----------------------------------------------------------------------------
(* apply_statement_draft: entity materialization (step 3) *)

CreateMissingCategory ==
    /\ req.pc = "categories"
    /\ LET item == req.payload.missing_categories[req.i]
           name == Strip(OrEmpty(item.name))
           last == req.i = Len(req.payload.missing_categories)
           next_pc == IF last THEN AfterCategories(req.payload) ELSE "categories"
           next_i == IF last THEN 1 ELSE req.i + 1
       IN IF name = "" \/ Lower(name) \in DOMAIN req.category_map
          THEN /\ req' = [req EXCEPT !.pc = next_pc, !.i = next_i]
               /\ UNCHANGED <<categories, nextId>>
          ELSE /\ categories' = categories \cup
                      {[id |-> nextId, name |-> name,
                        type |-> DefaultCategoryType, run |-> req.run]}
               /\ nextId' = nextId + 1
               /\ req' = [req EXCEPT
                             !.pc = next_pc, !.i = next_i,
                             !.created_category_ids = @ \cup {nextId},
                             !.category_map = MapSet(@, Lower(name), nextId)]
    /\ UNCHANGED <<accounts, transactions, events, daily_state, draft, runs,
                   revisions, response>>

\* faulty variant: every created account is a cash account
AccountKind_AlwaysCash(item) == "cash"

\* the kind create_account is called with
AccountKind(item) ==
    LET kind == IF item.kind = NoneStr \/ item.kind = "" THEN "bank"
                ELSE Lower(item.kind)
    IN IF kind = "card" THEN "bank"
       ELSE IF kind \notin {"cash", "bank"} THEN "bank"
       ELSE kind

CreateMissingAccount ==
    /\ req.pc = "accounts"
    /\ LET item == req.payload.missing_accounts[req.i]
           name == Strip(OrEmpty(item.name))
           last == req.i = Len(req.payload.missing_accounts)
           next_pc == IF last THEN "reload" ELSE "accounts"
           next_i == IF last THEN 1 ELSE req.i + 1
       IN IF name = "" \/ Lower(name) \in DOMAIN req.account_map
          THEN /\ req' = [req EXCEPT !.pc = next_pc, !.i = next_i]
               /\ UNCHANGED <<accounts, nextId>>
          ELSE /\ accounts' = accounts \cup
                      {[id |-> nextId, name |-> name, kind |-> AccountKind(item),
                        run |-> req.run]}
               /\ nextId' = nextId + 1
               /\ req' = [req EXCEPT
                             !.pc = next_pc, !.i = next_i,
                             !.created_account_ids = @ \cup {nextId},
                             !.account_map = MapSet(@, Lower(name), nextId)]
    /\ UNCHANGED <<categories, transactions, events, daily_state, draft, runs,
                   revisions, response>>

-----------------------------------------------------------------------------
(* apply_statement_draft: reload of the name maps and the default category  *)
(* (step 4)                                                                 *)

\* faulty variant: only the first operation is looked at
NeedsDefaultCategory_FirstOnly(txs) ==
    txs[1].type = "expense" /\ Key(txs[1].category_name) = ""

NeedsDefaultCategory(txs) ==
    \E j \in DOMAIN txs :
        txs[j].type = "expense" /\ Key(txs[j].category_name) = ""

ReloadAndDefaultCategory ==
    /\ req.pc = "reload"
    /\ LET account_map == _account_name_map(accounts)
           category_map == _category_name_map(categories)
       IN IF NeedsDefaultCategory(req.ops) /\ "prochee" \notin DOMAIN category_map
          THEN /\ categories' = categories \cup
                      {[id |-> nextId, name |-> "Prochee",
                        type |-> DefaultCategoryType, run |-> req.run]}
               /\ nextId' = nextId + 1
               /\ req' = [req EXCEPT
                             !.pc = "transactions", !.i = 1,
                             !.account_map = account_map,
                             !.created_category_ids = @ \cup {nextId},
                             !.category_map = MapSet(category_map, "prochee", nextId)]
          ELSE /\ req' = [req EXCEPT
                             !.pc = "transactions", !.i = 1,
                             !.account_map = account_map,
                             !.category_map = category_map]
               /\ UNCHANGED <<categories, nextId>>
    /\ UNCHANGED <<accounts, transactions, events, daily_state, draft, runs,
                   revisions, response>>

-----------------------------------------------------------------------------
(* apply_statement_draft: one transaction per operation (step 5) *)

\* the operation after the re-resolution of its ids from the name maps
Resolved(item, account_map, category_map) ==
    LET a == IF item.account_id = NoId
             THEN MapGet(account_map, Key(item.account_name))
             ELSE item.account_id
        ta == IF item.type = "transfer" /\ item.to_account_id = NoId
              THEN MapGet(account_map, Key(item.to_account_name))
              ELSE item.to_account_id
        c == IF item.type = "expense" /\ item.category_id = NoId
             THEN IF Key(item.category_name) # ""
                  THEN MapGet(category_map, Key(item.category_name))
                  ELSE MapGet(category_map, "prochee")
             ELSE IF item.type = "fee" /\ item.category_id = NoId
                     /\ Key(item.category_name) # ""
             THEN MapGet(category_map, Key(item.category_name))
             ELSE item.category_id
    IN [item EXCEPT !.account_id = a, !.to_account_id = ta, !.category_id = c]

\* tx_payload: kind is item.get("kind") or "normal", "debt" with a debt block
TxPayload(item) ==
    [type |-> item.type,
     kind |-> IF item.debt # NoneStr THEN "debt"
              ELSE IF item.kind = NoneStr \/ item.kind = "" THEN "normal"
              ELSE item.kind,
     amount |-> item.amount, date |-> item.date,
     account_id |-> item.account_id, to_account_id |-> item.to_account_id,
     category_id |-> item.category_id]

\* the ValueError of step 5, "" when both accounts are resolved
UnresolvedAccount(item) ==
    IF item.account_id = NoId THEN "account"
    ELSE IF item.type = "transfer" /\ item.to_account_id = NoId THEN "to_account"
    ELSE ""

EventCount(p) == IF p.type = "transfer" THEN 2 ELSE 1

CreateTransactionStep ==
    /\ req.pc = "transactions"
    /\ LET item == Resolved(req.ops[req.i], req.account_map, req.category_map)
           tx_payload == TxPayload(item)
           ops2 == [req.ops EXCEPT ![req.i] = item]
           last == req.i = Len(req.ops)
           tx == [id |-> nextId, run |-> req.run, op |-> req.i,
                  type |-> tx_payload.type, kind |-> tx_payload.kind,
                  amount |-> tx_payload.amount, date |-> tx_payload.date,
                  account_id |-> tx_payload.account_id,
                  to_account_id |-> tx_payload.to_account_id,
                  category_id |-> tx_payload.category_id]
       IN IF UnresolvedAccount(item) # ""
          THEN \* ValueError: caught, rollback follows
               /\ req' = [req EXCEPT !.pc = "rollback_transactions",
                                     !.ops = ops2, !.exc = "ValueError"]
               /\ UNCHANGED <<transactions, events, nextId, response>>
          ELSE IF TxRejection(accounts, categories, tx_payload) # ""
          THEN \* HTTPException from create_transaction: re-raised by apply
               /\ req' = Exit([req EXCEPT !.exc = "HTTPException"])
               /\ response' = Raised(400, TxRejection(accounts, categories,
                                                      tx_payload), req.run)
               /\ UNCHANGED <<transactions, events, nextId>>
          ELSE /\ transactions' = transactions \cup {tx}
               /\ events' = events \cup TxEvents(tx, nextId + 1)
               /\ nextId' = nextId + 1 + EventCount(tx_payload)
               /\ req' = [req EXCEPT
                             !.pc = IF last THEN AfterTransactions(req.payload)
                                    ELSE "transactions",
                             !.i = IF last THEN 1 ELSE req.i + 1,
                             !.ops = ops2,
                             !.created_transaction_ids = @ \cup {nextId}]
               /\ UNCHANGED response
    /\ UNCHANGED <<accounts, categories, daily_state, draft, runs, revisions>>

-----------------------------------------------------------------------------
(* apply_statement_draft: balance adjustments (step 6) *)

CreateAdjustmentStep ==
    /\ req.pc = "adjust"
    /\ LET adjust == req.payload.balance_adjustments[req.i]
           account_map == _account_name_map(accounts)
           account_id == MapGet(account_map, Key(adjust.account_name))
           last == req.i = Len(req.payload.balance_adjustments)
       IN IF account_id = NoId
          THEN \* ValueError: caught, rollback follows
               /\ req' = [req EXCEPT !.pc = "rollback_transactions",
                                     !.account_map = account_map,
                                     !.exc = "ValueError"]
               /\ UNCHANGED <<events, nextId>>
          ELSE /\ events' = events \cup
                      {[id |-> nextId, transaction_id |-> NoId,
                        account_id |-> account_id, delta |-> adjust.delta,
                        reason |-> "reconcile_adjust", date |-> adjust.date,
                        run |-> req.run]}
               /\ nextId' = nextId + 1
               /\ req' = [req EXCEPT
                             !.pc = IF last THEN AfterAdjustments(req.payload)
                                    ELSE "adjust",
                             !.i = IF last THEN 1 ELSE req.i + 1,
                             !.account_map = account_map,
                             !.created_adjustment_event_ids = @ \cup {nextId}]
    /\ UNCHANGED <<accounts, categories, transactions, daily_state, draft, runs,
                   revisions, response>>

-----------------------------------------------------------------------------
(* apply_statement_draft: debt totals (step 7) *)

ApplyDebtsStep ==
    /\ req.pc = "debts"
    /\ LET debts == req.payload.debts
           previous_debts == get_debts_as_of(daily_state, debts.date)
       IN IF UpsertDebtsRejected(debts.credit_cards_total, debts.people_debts_total)
          THEN \* HTTPException (422) from upsert_debts: re-raised by apply
               /\ req' = Exit([req EXCEPT !.exc = "HTTPException"])
               /\ response' = Raised(422, "negative debt total", req.run)
               /\ UNCHANGED daily_state
          ELSE /\ daily_state' = UpsertDebtsRow(daily_state, debts.date,
                                     debts.credit_cards_total,
                                     debts.people_debts_total)
               /\ req' = [req EXCEPT !.pc = "commit",
                                     !.previous_debts = previous_debts]
               /\ UNCHANGED response
    /\ UNCHANGED <<accounts, categories, transactions, events, draft, nextId,
                   runs, revisions>>

-----------------------------------------------------------------------------
(* apply_statement_draft: commit (step 8) *)

Commit ==
    /\ req.pc = "commit"
    /\ draft' = [draft EXCEPT !.status = "applied"]
    /\ response' = [NoResponse EXCEPT !.kind = "ok", !.code = 200, !.run = req.run]
    /\ req' = Exit(req)
    /\ UNCHANGED <<store, nextId, runs, revisions>>

\* update_statement_draft raises something that is no HTTPException (the
\* store call fails): caught by "except Exception", rollback follows
CommitFails ==
    /\ req.pc = "commit"
    /\ req' = [req EXCEPT !.pc = "rollback_transactions", !.exc = "Exception"]
    /\ UNCHANGED <<store, draft, nextId, runs, revisions, response>>

-----------------------------------------------------------------------------
(* _rollback_statement_apply, one step per kind of side effect, and the     *)
(* except branches of apply_statement_draft that call it                    *)

RollbackSteps == {"transactions", "adjustments", "accounts", "categories", "debts"}

\* faulty variant: the transactions are deleted first, their events are left
RollbackTransactions_RowsFirst ==
    /\ req.pc = "rollback_transactions"
    /\ IF req.created_transaction_ids # {}
       THEN /\ transactions' = {t \in transactions :
                                   t.id \notin req.created_transaction_ids}
            /\ req' = [req EXCEPT !.pc = "rollback_transaction_rows"]
       ELSE /\ UNCHANGED transactions
            /\ req' = [req EXCEPT !.pc = "rollback_adjustments",
                                  !.attempted = @ \cup {"transactions"}]
    /\ UNCHANGED <<accounts, categories, events, daily_state, draft, nextId,
                   runs, revisions, response>>

\* if created_transaction_ids: first the delete of the balance events whose
\* transaction_id is in the list
RollbackTransactions ==
    /\ req.pc = "rollback_transactions"
    /\ IF req.created_transaction_ids # {}
       THEN /\ events' = {e \in events :
                             e.transaction_id \notin req.created_transaction_ids}
            /\ req' = [req EXCEPT !.pc = "rollback_transaction_rows"]
       ELSE /\ UNCHANGED events
            /\ req' = [req EXCEPT !.pc = "rollback_adjustments",
                                  !.attempted = @ \cup {"transactions"}]
    /\ UNCHANGED <<accounts, categories, transactions, daily_state, draft, nextId,
                   runs, revisions, response>>

\* then the delete of the transactions of the list
RollbackTransactionRows ==
    /\ req.pc = "rollback_transaction_rows"
    /\ transactions' = {t \in transactions :
                           t.id \notin req.created_transaction_ids}
    /\ req' = [req EXCEPT !.pc = "rollback_adjustments",
                          !.attempted = @ \cup {"transactions"}]
    /\ UNCHANGED <<accounts, categories, events, daily_state, draft, nextId,
                   runs, revisions, response>>

\* faulty variant: the created adjustment events are left in the store
RollbackAdjustments_KeepsEvents ==
    /\ req.pc = "rollback_adjustments"
    /\ req' = [req EXCEPT !.pc = "rollback_accounts",
                          !.attempted = @ \cup {"adjustments"}]
    /\ UNCHANGED <<store, draft, nextId, runs, revisions, response>>

RollbackAdjustments ==
    /\ req.pc = "rollback_adjustments"
    /\ IF req.created_adjustment_event_ids # {}
       THEN events' = {e \in events : e.id \notin req.created_adjustment_event_ids}
       ELSE UNCHANGED events
    /\ req' = [req EXCEPT !.pc = "rollback_accounts",
                          !.attempted = @ \cup {"adjustments"}]
    /\ UNCHANGED <<accounts, categories, transactions, daily_state, draft, nextId,
                   runs, revisions, response>>

RollbackAccounts ==
    /\ req.pc = "rollback_accounts"
    /\ IF req.created_account_ids # {}
       THEN accounts' = {a \in accounts : a.id \notin req.created_account_ids}
       ELSE UNCHANGED accounts
    /\ req' = [req EXCEPT !.pc = "rollback_categories",
                          !.attempted = @ \cup {"accounts"}]
    /\ UNCHANGED <<categories, transactions, events, daily_state, draft, nextId,
                   runs, revisions, response>>

RollbackCategories ==
    /\ req.pc = "rollback_categories"
    /\ IF req.created_category_ids # {}
       THEN categories' = {c \in categories : c.id \notin req.created_category_ids}
       ELSE UNCHANGED categories
    /\ req' = [req EXCEPT !.pc = "rollback_debts",
                          !.attempted = @ \cup {"categories"}]
    /\ UNCHANGED <<accounts, transactions, events, daily_state, draft, nextId,
                   runs, revisions, response>>

\* faulty variant: the previous debt totals are not written back
RollbackDebts_NoRestore ==
    /\ req.pc = "rollback_debts"
    /\ req' = [req EXCEPT !.pc = "mark_failed",
                          !.attempted = @ \cup {"debts"}]
    /\ UNCHANGED <<store, draft, nextId, runs, revisions, response>>

\* if previous_debts and payload.get("debts")
RollbackDebts ==
    /\ req.pc = "rollback_debts"
    /\ IF req.previous_debts.present /\ req.payload.debts.present
       THEN daily_state' = UpsertDebtsRow(daily_state, req.payload.debts.date,
                               req.previous_debts.cards, req.previous_debts.other)
       ELSE UNCHANGED daily_state
    /\ req' = [req EXCEPT !.pc = "mark_failed",
                          !.attempted = @ \cup {"debts"}]
    /\ UNCHANGED <<accounts, categories, transactions, events, draft, nextId,
                   runs, revisions, response>>

\* after the rollback: the draft is stored failed with apply_error and the
\* structured error is returned (400 for ValueError, 500 for other exceptions)
MarkFailed ==
    /\ req.pc = "mark_failed"
    /\ LET reason == IF req.exc = "ValueError" THEN "invalid_operation_payload"
                     ELSE "internal_error"
       IN /\ draft' = [draft EXCEPT
                          !.status = "failed",
                          !.apply_error = [reason |-> reason, operation_index |-> 0,
                                           field |-> "", message |-> req.exc]]
          /\ response' = _statement_apply_error_response(
                             reason, 0, "",
                             IF req.exc = "ValueError" THEN req.exc
                             ELSE "Failed to apply statement draft",
                             IF req.exc = "ValueError" THEN 400 ELSE 500, req.run)
    /\ req' = Exit(req)
    /\ UNCHANGED <<store, nextId, runs, revisions>>

\* a store call of a rollback step raises: _rollback_statement_apply catches
\* nothing, so the exception leaves the except branch of apply_statement_draft
RollbackStepOf(pc) ==
    CASE pc = "rollback_transactions" -> "transactions"
      [] pc = "rollback_transaction_rows" -> "transactions"
      [] pc = "rollback_adjustments" -> "adjustments"
      [] pc = "rollback_accounts" -> "accounts"
      [] pc = "rollback_categories" -> "categories"
      [] pc = "rollback_debts" -> "debts"
      [] OTHER -> ""

RollbackCalls(r) ==
    CASE r.pc = "rollback_transactions" -> r.created_transaction_ids # {}
      [] r.pc = "rollback_transaction_rows" -> TRUE
      [] r.pc = "rollback_adjustments" -> r.created_adjustment_event_ids # {}
      [] r.pc = "rollback_accounts" -> r.created_account_ids # {}
      [] r.pc = "rollback_categories" -> r.created_category_ids # {}
      [] r.pc = "rollback_debts" -> r.previous_debts.present /\ r.payload.debts.present
      [] OTHER -> FALSE

RollbackStepFails ==
    /\ RollbackCalls(req)
    /\ req' = Exit([req EXCEPT !.exc = "RollbackError",
                               !.attempted = @ \cup {RollbackStepOf(req.pc)}])
    /\ response' = Raised(500, "Internal Server Error", req.run)
    /\ UNCHANGED <<store, draft, nextId, runs, revisions>>

-----------------------------------------------------------------------------
(* Specifications *)

-----------------------------------------------------------------------------
(* Requests of another user.  The draft row carries the user_id of the user  *)
(* who created it, and get_statement_draft selects by id and user_id.        *)

DraftOwner == "owner"
OtherUser == "other"

\* faulty variant: the row is selected by id alone
get_statement_draft_ByIdOnly(user_id) == draft.status # "none"

\* the select of get_statement_draft returns a row
get_statement_draft(user_id) == draft.status # "none" /\ user_id = DraftOwner

ReviseByOtherUser ==
    /\ req.pc = "idle"
    /\ draft.status # "none"
    /\ IF get_statement_draft(OtherUser)
       THEN Revise \/ ReviseContractViolation \/ ReviseLLMError
       ELSE /\ response' = Raised(404, "Draft not found", 0)
            /\ UNCHANGED <<store, draft, nextId, runs, revisions, req>>

ApplyByOtherUser ==
    /\ req.pc = "idle"
    /\ draft.status # "none"
    /\ IF get_statement_draft(OtherUser)
       THEN \/ ApplyAlreadyApplied
            \/ ApplyAlreadyFailed
            \/ ApplyValidationFails
            \/ ApplyValidationPasses
       ELSE /\ response' = Raised(404, "Draft not found", 0)
            /\ UNCHANGED <<store, draft, nextId, runs, revisions, req>>

ClientActions ==
    \/ ReviseByOtherUser
    \/ ApplyByOtherUser
    \/ PostStatementDraft
    \/ PostStatementDraftFails
    \/ Revise
    \/ ReviseContractViolation
    \/ ReviseLLMError
    \/ ApplyNotConfirmed
    \/ ApplyNotFound
    \/ ApplyAlreadyApplied
    \/ ApplyAlreadyFailed

ApplySteps ==
    \/ ApplyValidationFails
    \/ ApplyValidationPasses
    \/ CreateMissingCategory
    \/ CreateMissingAccount
    \/ ReloadAndDefaultCategory
    \/ CreateTransactionStep
    \/ CreateAdjustmentStep
    \/ ApplyDebtsStep
    \/ Commit
    \/ RollbackTransactions
    \/ RollbackTransactionRows
    \/ RollbackAdjustments
    \/ RollbackAccounts
    \/ RollbackCategories
    \/ RollbackDebts
    \/ MarkFailed

\* the store answers every call
Next == ClientActions \/ ApplySteps

Spec == Init /\ [][Next]_vars

\* the store can fail the call that commits the draft
NextFault == Next \/ CommitFails

SpecFault == Init /\ [][NextFault]_vars

\* the store can also fail a call of the rollback
NextRollbackFault == NextFault \/ RollbackStepFails

SpecRollbackFault == Init /\ [][NextRollbackFault]_vars

-----------------------------------------------------------------------------
(* Properties of apply_statement_draft                                      *)

\* an apply request that passed the status guard has just returned; req keeps
\* the history of that run (run, exc, attempted, before)
ApplyEnded == req.pc = "idle" /\ response.run # 0

\* the apply request enters the handler with confirm=true
ApplyConfirmed ==
    \/ ApplyNotFound
    \/ ApplyAlreadyApplied
    \/ ApplyAlreadyFailed
    \/ ApplyValidationFails
    \/ ApplyValidationPasses

AccountsBefore == req.before[1]
CategoriesBefore == req.before[2]
DebtsBefore == req.before[5]

NothingCreatedBy(r) ==
    /\ {a \in accounts : a.run = r} = {}
    /\ {c \in categories : c.run = r} = {}
    /\ {t \in transactions : t.run = r} = {}
    /\ {e \in events : e.run = r} = {}

EveryOperationHasTransaction(d, r) ==
    \A j \in DOMAIN d.ops : \E t \in transactions : t.run = r /\ t.op = j

\* C1: when an apply request on a draft in status draft or revised ends,
\* either the draft is applied and every operation has its transaction, or
\* the store holds no account, category, transaction or balance event created
\* by that request (whatever the step that failed).
C1_AllOrNothing ==
    ApplyEnded =>
        \/ draft.status = "applied" /\ EveryOperationHasTransaction(draft, req.run)
        \/ NothingCreatedBy(req.run)

\* C2: once the draft's status is applied or failed, no request changes it.
C2_TerminalStatus ==
    [][draft.status \in {"applied", "failed"} => draft'.status = draft.status]_vars

\* the names an operation may refer to: existing accounts and missing_accounts
KnownAccountNames(accs, d) ==
    {Lower(a.name) : a \in accs}
        \cup {Key(d.missing_accounts[j].name) : j \in DOMAIN d.missing_accounts}

RefersToUnknownAccount(item, accs, d) ==
    \/ item.account_id = NoId
       /\ Key(item.account_name) \notin KnownAccountNames(accs, d)
    \/ item.type = "transfer" /\ item.to_account_id = NoId
       /\ Key(item.to_account_name) \notin KnownAccountNames(accs, d)

HasUnknownAccount(d, accs) ==
    \E j \in DOMAIN d.ops : RefersToUnknownAccount(d.ops[j], accs, d)

AccountFields ==
    {"account_id", "account_name", "account_ref",
     "to_account_id", "to_account_name", "to_account_ref"}

\* C3: if an operation, at any position, refers to an account that neither
\* exists nor is listed in missing_accounts, apply ends with the store as it
\* was, the draft failed with invalid_operation_payload and the index and
\* field of such an operation; and no step after validation runs on a draft
\* with such an operation.
C3_UnknownAccountFailsBeforeMutation ==
    /\ (ApplyEnded /\ HasUnknownAccount(draft, AccountsBefore)) =>
          /\ store = req.before
          /\ draft.status = "failed"
          /\ draft.apply_error.reason = "invalid_operation_payload"
          /\ draft.apply_error.operation_index \in DOMAIN draft.ops
          /\ RefersToUnknownAccount(draft.ops[draft.apply_error.operation_index],
                                    AccountsBefore, draft)
          /\ draft.apply_error.field \in AccountFields
          /\ response = _statement_apply_error_response(
                            "invalid_operation_payload",
                            draft.apply_error.operation_index,
                            draft.apply_error.field, "", 400, req.run)
    /\ req.pc # "idle" => ~HasUnknownAccount(req.payload, AccountsBefore)

\* the second of two operations has no account name; the first one is fine
C3_Witness ==
    /\ ApplyEnded
    /\ Len(draft.ops) = 2
    /\ ~RefersToUnknownAccount(draft.ops[1], AccountsBefore, draft)
    /\ RefersToUnknownAccount(draft.ops[2], AccountsBefore, draft)
    /\ draft.status = "failed"
    /\ draft.apply_error.operation_index = 2

C5_ApplyOnFailedDraft ==
    [][(draft.status = "failed" /\ ApplyConfirmed) =>
          /\ response'.kind = "statement_apply_failed"
          /\ response'.code = 409
          /\ IF draft.apply_error # NoApplyError
             THEN /\ response'.reason = draft.apply_error.reason
                  /\ response'.operation_index = draft.apply_error.operation_index
                  /\ response'.field = draft.apply_error.field
                  /\ response'.message = draft.apply_error.message
             ELSE response'.reason = "draft_failed"
          /\ UNCHANGED <<store, draft, nextId, runs, req>>]_vars

\* a draft failed by validation was applied again and got its stored error
C5_Witness ==
    /\ draft.status = "failed"
    /\ draft.apply_error.reason = "invalid_operation_payload"
    /\ draft.apply_error.operation_index > 0
    /\ response.code = 409
    /\ response.reason = draft.apply_error.reason
    /\ response.operation_index = draft.apply_error.operation_index
    /\ response.field = draft.apply_error.field

\* C6: an apply request that does not succeed ends with the draft failed and
\* the structured response statement_apply_failed, never a raised exception,
\* and never leaves the draft in draft or revised.
C6_FailureMarksDraftFailed ==
    (ApplyEnded /\ response.kind # "ok") =>
        /\ draft.status = "failed"
        /\ response.kind = "statement_apply_failed"

\* the store has the effects of run r of the stored draft d
RunCompleted(d, r) ==
    /\ \A j \in DOMAIN d.missing_categories :
          Key(d.missing_categories[j].name) \in {Lower(c.name) : c \in categories}
    /\ \A j \in DOMAIN d.missing_accounts :
          Key(d.missing_accounts[j].name) \in {Lower(a.name) : a \in accounts}
    /\ \A j \in DOMAIN d.ops :
          Cardinality({t \in transactions : t.run = r /\ t.op = j}) = 1
    /\ Cardinality({t \in transactions : t.run = r}) = Len(d.ops)
    /\ \A j \in DOMAIN d.balance_adjustments :
          \E e \in events :
              /\ e.run = r
              /\ e.reason = "reconcile_adjust"
              /\ e.delta = d.balance_adjustments[j].delta
              /\ \E a \in accounts :
                    /\ a.id = e.account_id
                    /\ Lower(a.name) = Key(d.balance_adjustments[j].account_name)
    /\ d.debts.present =>
          daily_state[d.debts.date] =
              [present |-> TRUE, cards |-> d.debts.credit_cards_total,
               other |-> d.debts.people_debts_total]

C9_RollbackAttemptsEveryStep ==
    (ApplyEnded /\ req.exc \in {"ValueError", "Exception", "RollbackError"}) =>
        /\ req.attempted = RollbackSteps
        /\ draft.status = "failed"

NoCategoryExpense(item) ==
    item.type = "expense" /\ Key(item.category_name) = ""

ProcheeRows(cats) == {c \in cats : Lower(c.name) = "prochee"}

\* the operations the transaction loop has gone through
Processed(r) ==
    IF r.pc = "transactions" THEN 1..(r.i - 1) ELSE DOMAIN r.ops

C10_WitnessExisting ==
    /\ req.pc = "commit"
    /\ \E j \in DOMAIN req.payload.ops : NoCategoryExpense(req.payload.ops[j])
    /\ ProcheeRows(CategoriesBefore) # {}
    /\ \E t \in transactions :
          t.run = req.run /\ t.category_id \in {c.id : c \in ProcheeRows(CategoriesBefore)}

-----------------------------------------------------------------------------
(* The concrete scenario of the specification: one expense of 500 on the    *)
(* first date, account "Tinkoff", category "Food" (the scenario's           *)
(* "Groceries"), in a budget without accounts and categories                *)

ScenarioPayload ==
    [operations |-> <<[date |-> 1, amount |-> Amount500, type |-> "expense",
                       account |-> "Tinkoff", category |-> "Food",
                       counterparty |-> "Cash"]>>,
     accounts_to_create |-> <<>>, categories_to_create |-> <<>>,
     debts |-> NoDebts, balance_adjustments |-> <<>>]

ScenarioDraft(d) ==
    /\ d.ops = DraftPayloadOf(ScenarioPayload, {}, {}).ops
    /\ d.missing_accounts = <<[name |-> "Tinkoff", kind |-> "bank"]>>
    /\ d.missing_categories = <<[name |-> "Food", type |-> "expense"]>>
    /\ d.debts = NoDebts
    /\ d.balance_adjustments = <<>>

-----------------------------------------------------------------------------
(* A draft-creation request that failed: the LLM call raised LLMError or    *)
(* the response violated the contract                                       *)

DraftCreationFailed == response.message = "post_statement_draft failed"

\* C12: after a draft-creation request whose LLM call failed or whose
\* response violated the contract, a draft row with status failed is stored
\* and the request has ended with a 400-class error.
C12_FailedDraftStored ==
    DraftCreationFailed =>
        /\ draft.status = "failed"
        /\ response.code \in 400..499

-----------------------------------------------------------------------------
\* the operation names an account the draft lists in missing_accounts
ListedAsMissing(op, d) ==
    \E j \in DOMAIN d.missing_accounts :
        Key(d.missing_accounts[j].name) = Key(op.account_name)
        /\ Key(op.account_name) # ""

\* C14: a draft stored with status draft or revised has a non-empty list of
\* normalized operations, each with a resolved account_id or with an account
\* name that is listed in the draft's missing_accounts.
C14_EveryOperationHasAccountReference ==
    draft.status \in {"draft", "revised"} =>
        /\ draft.ops # <<>>
        /\ \A j \in DOMAIN draft.ops :
              \/ draft.ops[j].account_id # NoId
              \/ ListedAsMissing(draft.ops[j], draft)

-----------------------------------------------------------------------------
(* The draft requester: generate_statement_draft of llm_client.py and the    *)
(* contract validation _validate_draft_payload of the two callers.  A JSON   *)
(* value is a record with its Python type in t.                              *)

JNone == [t |-> "null", v |-> ""]
JStr(s) == [t |-> "str", v |-> s]
JNum(s) == [t |-> "num", v |-> s]
JList(items) == [t |-> "list", items |-> items]
JDict == [t |-> "dict", items |-> <<>>]
JOther == [t |-> "str", items |-> <<>>]
JAbsent == [t |-> "null", items |-> <<>>]

required_keys ==
    {"operations", "summary", "accounts_to_create", "categories_to_create",
     "counterparties", "warnings"}

\* payload.get(key)
PayloadGet(payload, key) ==
    IF key \in payload.present THEN payload.value[key] ELSE JAbsent

\* item.get(key) in (None, "")
IsBlank(x) == x.t = "null" \/ (x.t = "str" /\ x.v = "")

ContractError(msg, keys, index, key) ==
    [msg |-> msg, keys |-> keys, index |-> index, key |-> key]

ItemKeys == <<"date", "amount", "type", "account">>

ContractTypes == {"income", "expense", "transfer", "commission"}

\* faulty variant: the type is compared as it was sent
ItemTypeInvalid_CaseSensitive(item) ==
    ~IsBlank(item.type) /\ item.type.v \notin ContractTypes

\* op_type and op_type not in {...}
ItemTypeInvalid(item) ==
    LET op_type == IF IsBlank(item.type) THEN "" ELSE Lower(item.type.v)
    IN op_type # "" /\ op_type \notin ContractTypes

\* the errors of operations[index], in the order they are appended
ItemErrors(item, index) ==
    IF item.t # "dict"
    THEN <<ContractError("must be an object", {}, index, "")>>
    ELSE LET missing == SelectSeq(ItemKeys, LAMBDA k : IsBlank(item[k]))
         IN [j \in DOMAIN missing |->
                ContractError("missing", {}, index, missing[j])]
            \o (IF ItemTypeInvalid(item)
                THEN <<ContractError("invalid type", {}, index, "")>>
                ELSE <<>>)

RECURSIVE OperationsErrors(_, _)
OperationsErrors(operations, index) ==
    IF index > Len(operations) THEN <<>>
    ELSE ItemErrors(operations[index], index)
         \o OperationsErrors(operations, index + 1)

ShapeError(payload, key, t, msg) ==
    IF PayloadGet(payload, key).t # t
    THEN <<ContractError(msg, {}, 0, key)>> ELSE <<>>

_validate_draft_payload(payload) ==
    IF ~payload.object
    THEN <<ContractError("Payload must be an object", {}, 0, "")>>
    ELSE LET missing == required_keys \ payload.present
             operations == PayloadGet(payload, "operations")
         IN (IF missing # {}
             THEN <<ContractError("Missing keys", missing, 0, "")>> ELSE <<>>)
            \o (IF operations.t # "list"
                THEN <<ContractError("must be a list", {}, 0, "operations")>>
                ELSE IF operations.items = <<>>
                THEN <<ContractError("cannot be empty", {}, 0, "operations")>>
                ELSE OperationsErrors(operations.items, 1))
            \o ShapeError(payload, "summary", "dict", "must be an object")
            \o ShapeError(payload, "accounts_to_create", "list", "must be a list")
            \o ShapeError(payload, "categories_to_create", "list", "must be a list")
            \o ShapeError(payload, "counterparties", "list", "must be a list")
            \o ShapeError(payload, "warnings", "list", "must be a list")

-----------------------------------------------------------------------------
(* The responses of the LLM: payloads with absent keys, wrong shapes, and    *)
(* operations with blank fields or unknown types                             *)

ContractItem(date, amount, type, account) ==
    [t |-> "dict", date |-> date, amount |-> amount, type |-> type,
     account |-> account]

GoodItem ==
    ContractItem(JStr("2024-03-01"), JNum("500"), JStr("expense"), JStr("Tinkoff"))

NotAnObject == [GoodItem EXCEPT !.t = "str"]

ContractItems ==
    {ContractItem(d, a, ty, ac) :
        d \in {JNone, JStr(""), JStr("2024-03-01")},
        a \in {JNone, JStr(""), JNum("500")},
        ty \in {JNone, JStr(""), JStr("expense"), JStr("INCOME"), JStr("gift")},
        ac \in {JNone, JStr(""), JStr(" "), JStr("Tinkoff")}}
    \cup {NotAnObject}

GoodValue(operations) ==
    [k \in required_keys |->
        IF k = "operations" THEN operations
        ELSE IF k = "summary" THEN JDict ELSE JList(<<>>)]

ShapeValues(operations) ==
    {GoodValue(operations)}
    \cup {[GoodValue(operations) EXCEPT ![k] = JOther] :
            k \in required_keys \ {"operations"}}

NoPayload == [object |-> FALSE, present |-> {}, value |-> GoodValue(JOther)]

ContractPayloads ==
    {NoPayload}
    \cup {[object |-> TRUE, present |-> P, value |-> V] :
            P \in SUBSET required_keys,
            V \in UNION {ShapeValues(o) :
                            o \in {JOther, JList(<<>>), JList(<<GoodItem>>)}}}
    \cup {[object |-> TRUE, present |-> required_keys,
           value |-> GoodValue(JList(items))] :
            items \in {<<x>> : x \in ContractItems}
                      \cup {<<GoodItem, x>> : x \in ContractItems}}

-----------------------------------------------------------------------------
(* One request of post_statement_draft or revise_statement_draft up to the   *)
(* contract validation.  req holds the locals of the request.                *)

RequesterReq(caller, api_key) ==
    [pc |-> "call", caller |-> caller, api_key |-> api_key, sent |-> 0,
     outcome |-> "", exc |-> "", payload |-> NoPayload]

InitRequester ==
    /\ accounts = {}
    /\ categories = {}
    /\ transactions = {}
    /\ events = {}
    /\ daily_state = [d \in Dates |-> NoRow]
    /\ draft = NoDraft
    /\ nextId = 5
    /\ runs = 0
    /\ revisions = 0
    /\ req \in {RequesterReq(caller, api_key) :
                    caller \in {"post_statement_draft", "revise_statement_draft"},
                    api_key \in BOOLEAN}
    /\ response = NoResponse

\* faulty variant: a failed call is sent again once
LLMFailure_Retries(r, outcome) ==
    IF r.sent < 2 THEN [r EXCEPT !.pc = "call", !.outcome = outcome]
    ELSE [r EXCEPT !.pc = "raised", !.outcome = outcome, !.exc = "LLMError"]

\* raise LLMError(...): generate_statement_draft has no loop around the post
LLMFailure(r, outcome) ==
    [r EXCEPT !.pc = "raised", !.outcome = outcome, !.exc = "LLMError"]

RequesterUnchanged ==
    UNCHANGED <<store, draft, nextId, runs, revisions>>

\* _build_headers raises LLMError when no API key is configured
LLMNotConfigured ==
    /\ req.pc = "call"
    /\ ~req.api_key
    /\ req' = [req EXCEPT !.pc = "raised", !.outcome = "not configured",
                          !.exc = "LLMError"]
    /\ UNCHANGED response
    /\ RequesterUnchanged

\* client.post(url, ...)
LLMSend ==
    /\ req.pc = "call"
    /\ req.api_key
    /\ req' = [req EXCEPT !.pc = "sent", !.sent = @ + 1]
    /\ UNCHANGED response
    /\ RequesterUnchanged

\* httpx.HTTPError: no connection, timeout, or an error status
LLMTransportFailure ==
    /\ req.pc = "sent"
    /\ req' = LLMFailure(req, "transport failure")
    /\ UNCHANGED response
    /\ RequesterUnchanged

\* response.json() raises: the body is not JSON (not an httpx.HTTPError)
LLMBodyNotJSON ==
    /\ req.pc = "sent"
    /\ req' = [req EXCEPT !.pc = "raised", !.outcome = "body not JSON",
                          !.exc = "ValueError"]
    /\ UNCHANGED response
    /\ RequesterUnchanged

LLMMissingChoices ==
    /\ req.pc = "sent"
    /\ req' = LLMFailure(req, "missing choices")
    /\ UNCHANGED response
    /\ RequesterUnchanged

LLMMissingContent ==
    /\ req.pc = "sent"
    /\ req' = LLMFailure(req, "missing content")
    /\ UNCHANGED response
    /\ RequesterUnchanged

LLMInvalidJSON ==
    /\ req.pc = "sent"
    /\ req' = LLMFailure(req, "invalid JSON")
    /\ UNCHANGED response
    /\ RequesterUnchanged

\* return json.loads(message)
LLMReturns ==
    /\ req.pc = "sent"
    /\ \E p \in ContractPayloads :
          req' = [req EXCEPT !.pc = "validate", !.outcome = "returned",
                             !.payload = p]
    /\ UNCHANGED response
    /\ RequesterUnchanged

\* errors = _validate_draft_payload(draft_payload)
ValidateDraftPayload ==
    /\ req.pc = "validate"
    /\ req' = [req EXCEPT !.pc = "validated"]
    /\ response' = [kind |-> "contract",
                    errors |-> _validate_draft_payload(req.payload)]
    /\ RequesterUnchanged

NextRequester ==
    \/ LLMNotConfigured
    \/ LLMSend
    \/ LLMTransportFailure
    \/ LLMBodyNotJSON
    \/ LLMMissingChoices
    \/ LLMMissingContent
    \/ LLMInvalidJSON
    \/ LLMReturns
    \/ ValidateDraftPayload

SpecRequester == InitRequester /\ [][NextRequester]_vars

-----------------------------------------------------------------------------
(* Properties of the contract validation                                     *)

Validated == req.pc = "validated"

ReportsMissingKey(errors, key) ==
    \E j \in DOMAIN errors :
        errors[j].msg = "Missing keys" /\ key \in errors[j].keys

ReportsEmptyOperations(errors) ==
    \E j \in DOMAIN errors :
        errors[j].msg = "cannot be empty" /\ errors[j].key = "operations"

HasEmptyOperations(payload) ==
    /\ payload.object
    /\ "operations" \in payload.present
    /\ payload.value["operations"].t = "list"
    /\ payload.value["operations"].items = <<>>

\* all six keys present with the required shapes, and every operation an
\* object with non-empty date, amount, type and account and an accepted type
WellFormed(payload, TypeAccepted(_)) ==
    /\ payload.object
    /\ payload.present = required_keys
    /\ payload.value["operations"].t = "list"
    /\ payload.value["operations"].items # <<>>
    /\ payload.value["summary"].t = "dict"
    /\ \A k \in required_keys \ {"operations", "summary"} :
          payload.value[k].t = "list"
    /\ \A j \in DOMAIN payload.value["operations"].items :
          LET item == payload.value["operations"].items[j]
          IN /\ item.t = "dict"
             /\ \A k \in {"date", "amount", "type", "account"} : ~IsBlank(item[k])
             /\ TypeAccepted(item.type.v)

-----------------------------------------------------------------------------
(* Properties of the draft requester                                         *)

LLMFailureOutcomes ==
    {"transport failure", "missing choices", "missing content", "invalid JSON"}

\* C20: one draft-creation or revise request sends at most one request to
\* the LLM, and a transport failure, a missing choice, missing content or
\* non-JSON content ends the call with an LLMError after that one request.
C20_NeverRetries ==
    /\ req.sent <= 1
    /\ req.outcome \in LLMFailureOutcomes =>
          /\ req.pc = "raised"
          /\ req.exc = "LLMError"
          /\ req.sent = 1

C20_Witness ==
    /\ req.outcome = "transport failure"
    /\ req.pc = "raised"
    /\ req.sent = 1

-----------------------------------------------------------------------------
(* The entity resolver on its own: payloads with accounts_to_create and     *)
(* categories_to_create, names that differ only in case, and blank names,   *)
(* resolved twice against one snapshot of the budget.                       *)

MaxCreate == 2

ResolverOps ==
    [date : {1}, amount : {Amount500}, type : {"expense"},
     account : {"Tinkoff", "tinkoff", " "},
     category : {NoneStr, "Food", "food"}, counterparty : {NoneStr}]

AccountsToCreate ==
    {[name |-> "Tinkoff", type |-> "card"], [name |-> "tinkoff", type |-> "cash"],
     [name |-> " ", type |-> NoneStr]}

CategoriesToCreate == {[name |-> "Food"], [name |-> "food"]}

SeqsUpTo(S, n) == UNION {[1..k -> S] : k \in 0..n}

ResolverPayloads ==
    [operations : SeqsUpTo(ResolverOps, MaxOps),
     accounts_to_create : SeqsUpTo(AccountsToCreate, MaxCreate),
     categories_to_create : SeqsUpTo(CategoriesToCreate, MaxCreate)]

\* faulty variant: the call consumes the payload's operation list
ResolverEffect_ConsumesOperations(draft_payload, accs, cats) ==
    [payload |-> [draft_payload EXCEPT !.operations = <<>>],
     accounts |-> accs, categories |-> cats]

\* what a call leaves of its arguments: _normalize_operations assigns only to
\* its local dicts and lists and calls no repository function
ResolverEffect(draft_payload, accs, cats) ==
    [payload |-> draft_payload, accounts |-> accs, categories |-> cats]

InitResolver ==
    /\ accounts \in {{}, InitAccounts}
    /\ categories \in {{}, InitCategories}
    /\ transactions = {}
    /\ events = {}
    /\ daily_state = [d \in Dates |-> NoRow]
    /\ draft = NoDraft
    /\ nextId = 5
    /\ runs = 0
    /\ revisions = 0
    /\ \E p \in ResolverPayloads :
          req = [pc |-> "resolve", payload |-> p, calls |-> 0, results |-> <<>>,
                 given |-> [payload |-> p, store |-> store]]
    /\ response = NoResponse

\* normalized, warnings, missing_accounts, missing_categories =
\*     _normalize_operations(draft_payload, accounts, categories)
ResolveCall ==
    /\ req.pc = "resolve"
    /\ req.calls < 2
    /\ LET effect == ResolverEffect(req.payload, accounts, categories)
       IN /\ req' = [req EXCEPT
                        !.calls = @ + 1,
                        !.results = Append(@, _normalize_operations(
                                                  req.payload, accounts, categories)),
                        !.payload = effect.payload]
          /\ accounts' = effect.accounts
          /\ categories' = effect.categories
    /\ UNCHANGED <<transactions, events, daily_state, draft, nextId, runs,
                   revisions, response>>

NextResolver == ResolveCall

SpecResolver == InitResolver /\ [][NextResolver]_vars

NamedKeys(names) == {Key(n) : n \in names} \ {""}

CreateNames(items) == {items[j].name : j \in DOMAIN items}

\* C16: missing_accounts holds exactly one entry per distinct lower-cased
\* name (trimmed; a blank is no name) that appears in accounts_to_create or
\* as an operation's account and matches no existing account, and no entry
\* that matches an existing account; likewise missing_categories.
C16_MissingSetsExact ==
    req.calls >= 1 =>
        LET r == req.results[1]
            p == req.given.payload
            wanted_accounts ==
                NamedKeys(CreateNames(p.accounts_to_create)
                          \cup {p.operations[j].account : j \in DOMAIN p.operations})
                \ DOMAIN _account_name_map(req.given.store[1])
            wanted_categories ==
                NamedKeys(CreateNames(p.categories_to_create)
                          \cup {p.operations[j].category : j \in DOMAIN p.operations})
                \ DOMAIN _category_name_map(req.given.store[2])
        IN /\ {Key(r.missing_accounts[j].name) : j \in DOMAIN r.missing_accounts}
                 = wanted_accounts
           /\ Len(r.missing_accounts) = Cardinality(wanted_accounts)
           /\ {Key(r.missing_categories[j].name) : j \in DOMAIN r.missing_categories}
                 = wanted_categories
           /\ Len(r.missing_categories) = Cardinality(wanted_categories)

C16_Witness ==
    /\ req.calls >= 1
    /\ accounts = {}
    /\ Len(req.given.payload.operations) = 2
    /\ req.given.payload.operations[1].account = "Tinkoff"
    /\ req.given.payload.operations[2].account = "tinkoff"
    /\ Len(req.results[1].missing_accounts) = 1

-----------------------------------------------------------------------------
\* C17: a revise or apply request of a user other than the draft's owner is
\* answered as not found and changes neither the draft nor any account,
\* category, transaction, balance event or debt total.
C17_OtherUserNotFound ==
    [][(ReviseByOtherUser \/ ApplyByOtherUser) =>
          /\ response'.code = 404
          /\ response'.message = "Draft not found"
          /\ UNCHANGED <<store, draft, nextId, runs, revisions, req>>]_vars

C17_Witness ==
    /\ response.code = 404
    /\ response.message = "Draft not found"
    /\ draft.status = "draft"
    /\ draft.ops # <<>>

-----------------------------------------------------------------------------
(* The order of the writes of one apply run.  Ids are handed out in the     *)
(* order of the inserts, so the id of a row tells when it was written.      *)

ForwardPcs ==
    {"categories", "accounts", "reload", "transactions", "adjust", "debts", "commit"}

MissingCategoryRows(r) == {c \in categories : c.run = r /\ c.name # "Prochee"}
DefaultCategoryRows(r) == {c \in categories : c.run = r /\ c.name = "Prochee"}
AccountRows(r) == {a \in accounts : a.run = r}
TransactionRows(r) == {t \in transactions : t.run = r}
AdjustmentRows(r) == {e \in events : e.run = r /\ e.reason = "reconcile_adjust"}

IdsBefore(A, B) == \A a \in A : \A b \in B : a.id < b.id

CategoriesDone(d) ==
    \A j \in DOMAIN d.missing_categories :
        \/ Key(d.missing_categories[j].name) = ""
        \/ Key(d.missing_categories[j].name) \in DOMAIN _category_name_map(categories)

AccountsDone(d) ==
    \A j \in DOMAIN d.missing_accounts :
        \/ Key(d.missing_accounts[j].name) = ""
        \/ Key(d.missing_accounts[j].name) \in DOMAIN _account_name_map(accounts)

DefaultCategoryDone(d) ==
    NeedsDefaultCategory(d.ops) => "prochee" \in DOMAIN _category_name_map(categories)

TransactionsDone(d, r) ==
    \A j \in DOMAIN d.ops : \E t \in TransactionRows(r) : t.op = j

AdjustmentsDone(d, r) ==
    Cardinality(AdjustmentRows(r)) = Len(d.balance_adjustments)

DebtsDone(d) ==
    d.debts.present =>
        /\ daily_state[d.debts.date].present
        /\ daily_state[d.debts.date].cards = d.debts.credit_cards_total
        /\ daily_state[d.debts.date].other = d.debts.people_debts_total

-----------------------------------------------------------------------------
(* CSV rows: _coerce_number and _normalize_csv_rows.  A row is the dict of   *)
(* one CSV line, header -> cell; a cell is the text of the file.             *)

NoNumber == [t |-> "none", v |-> 0]
Float(n) == [t |-> "float", v |-> n]

Abs(n) == IF n < 0 THEN -n ELSE n

\* non-breaking spaces replaced, strip(), then spaces removed and "," -> "."
CleanNumber(value) ==
    CASE value = " " -> ""
      [] value = "1 000" -> "1000"
      [] value = " 100 " -> "100"
      [] OTHER -> value

\* float(normalized), None on ValueError
ParseFloat(normalized) ==
    CASE normalized = "100" -> Float(100)
      [] normalized = "-100" -> Float(-100)
      [] normalized = "0" -> Float(0)
      [] normalized = "1000" -> Float(1000)
      [] OTHER -> NoNumber

_coerce_number(value) ==
    IF value = NoneStr THEN NoNumber
    ELSE IF CleanNumber(value) = "" THEN NoNumber
    ELSE ParseFloat(CleanNumber(value))

\* next((lowered[key] for key in keys if key in lowered), None)
CsvCell(row, keys) ==
    LET found == {h \in DOMAIN row : Lower(h) \in keys}
    IN IF found = {} THEN NoneStr ELSE row[CHOOSE h \in found : TRUE]

amount_keys == {"amount", "sum", "amount_rub"}
debit_keys == {"debit"}
credit_keys == {"credit"}

\* faulty variant: an amount of 0 counts as no amount
CsvAmount_ZeroIsMissing(amount_number, debit_number, credit_number) ==
    IF amount_number.t # "none" /\ amount_number.v # 0 THEN amount_number
    ELSE IF debit_number.t # "none" THEN Float(-Abs(debit_number.v))
    ELSE IF credit_number.t # "none" THEN Float(Abs(credit_number.v))
    ELSE NoNumber

\* amount_number after the "if amount_number is None" block
CsvAmount(amount_number, debit_number, credit_number) ==
    IF amount_number.t # "none" THEN amount_number
    ELSE IF debit_number.t # "none" THEN Float(-Abs(debit_number.v))
    ELSE IF credit_number.t # "none" THEN Float(Abs(credit_number.v))
    ELSE NoNumber

NormalizeCsvRow(row) ==
    [amount |-> CsvAmount(_coerce_number(CsvCell(row, amount_keys)),
                          _coerce_number(CsvCell(row, debit_keys)),
                          _coerce_number(CsvCell(row, credit_keys))),
     raw |-> row]

_normalize_csv_rows(rows) == [j \in DOMAIN rows |-> NormalizeCsvRow(rows[j])]

CsvCells == {"", " ", "abc", "100", " 100 ", "-100", "0", "1 000"}

CsvHeaders == {"Amount", "Debit", "Credit"}

CsvRowsOf == UNION {[H -> CsvCells] : H \in SUBSET CsvHeaders}

InitCsv ==
    /\ accounts = {}
    /\ categories = {}
    /\ transactions = {}
    /\ events = {}
    /\ daily_state = [d \in Dates |-> NoRow]
    /\ draft = NoDraft
    /\ nextId = 5
    /\ runs = 0
    /\ revisions = 0
    /\ \E row \in CsvRowsOf :
          req = [pc |-> "csv", rows |-> <<row>>, normalized_rows |-> <<>>]
    /\ response = NoResponse

\* normalized_rows = _normalize_csv_rows(rows) in post_statement_draft
NormalizeCsvRows ==
    /\ req.pc = "csv"
    /\ req' = [req EXCEPT !.pc = "normalized",
                          !.normalized_rows = _normalize_csv_rows(req.rows)]
    /\ UNCHANGED <<store, draft, nextId, runs, revisions, response>>

NextCsv == NormalizeCsvRows

SpecCsv == InitCsv /\ [][NextCsv]_vars

\* the number in the cell under the given header, NoNumber when the column
\* is absent or its cell does not parse
CsvNumber(row, header) ==
    IF header \in DOMAIN row THEN _coerce_number(row[header]) ELSE NoNumber

\* C19: a parsable unified amount column is taken as it is; without one a
\* parsable debit d gives -|d|, and otherwise a parsable credit c gives +|c|
\* (debit 100 gives -100, credit 100 gives +100).
C19_CsvAmount ==
    req.pc = "normalized" =>
        \A j \in DOMAIN req.rows :
            LET a == CsvNumber(req.rows[j], "Amount")
                d == CsvNumber(req.rows[j], "Debit")
                c == CsvNumber(req.rows[j], "Credit")
                amount == req.normalized_rows[j].amount
            IN /\ a.t = "float" => amount = a
               /\ (a.t = "none" /\ d.t = "float") => amount = Float(-Abs(d.v))
               /\ (a.t = "none" /\ d.t = "none" /\ c.t = "float")
                     => amount = Float(Abs(c.v))
               /\ (a.t = "none" /\ d.t = "float" /\ req.rows[j]["Debit"] = "100")
                     => amount = Float(-100)
               /\ (a.t = "none" /\ d.t = "none" /\ c.t = "float"
                   /\ req.rows[j]["Credit"] = "100") => amount = Float(100)

C19_Witness ==
    /\ req.pc = "normalized"
    /\ DOMAIN req.rows[1] = CsvHeaders
    /\ req.rows[1]["Amount"] = "abc"
    /\ req.rows[1]["Debit"] = "100"
    /\ req.rows[1]["Credit"] = "100"
    /\ req.normalized_rows[1].amount = Float(-100)

-----------------------------------------------------------------------------
(* The Telegram webhook: telegram_webhook of telegram_webhook_routes.py.     *)
(* req holds the request (header, body), the environment and app.state, and *)
(* what the handler did.                                                     *)

Truthy(x) == x # NoneStr /\ x # ""

\* faulty variant: the header is not compared
SecretMismatch_NeverCompared(expected_secret, secret) == FALSE

\* expected_secret and secret != expected_secret
SecretMismatch(expected_secret, secret) ==
    Truthy(expected_secret) /\ secret # expected_secret

WebhookRequests ==
    [pc : {"webhook"},
     telegram_application : BOOLEAN,
     expected_secret : {NoneStr, "", "secret"},
     secret : {NoneStr, "secret", "bad"},
     body_is_json : BOOLEAN,
     update_parses : BOOLEAN,
     processing_fails : BOOLEAN,
     processed : {0},
     logged : {""},
     result : {"none"}]

InitWebhook ==
    /\ accounts = {}
    /\ categories = {}
    /\ transactions = {}
    /\ events = {}
    /\ daily_state = [d \in Dates |-> NoRow]
    /\ draft = NoDraft
    /\ nextId = 5
    /\ runs = 0
    /\ revisions = 0
    /\ req \in WebhookRequests
    /\ response = NoResponse

WebhookReturns(logged, processed) ==
    /\ req' = [req EXCEPT !.pc = "returned", !.result = "ok",
                          !.logged = logged, !.processed = processed]
    /\ UNCHANGED <<store, draft, nextId, runs, revisions, response>>

\* no telegram_application in app.state
WebhookNoApplication ==
    /\ req.pc = "webhook"
    /\ ~req.telegram_application
    /\ WebhookReturns("Telegram app not found in app.state", 0)

\* await request.json() raises: caught by "except Exception"
WebhookBodyFails ==
    /\ req.pc = "webhook"
    /\ req.telegram_application
    /\ ~req.body_is_json
    /\ WebhookReturns("Telegram webhook processing failed", 0)

WebhookSecretMismatch ==
    /\ req.pc = "webhook"
    /\ req.telegram_application
    /\ req.body_is_json
    /\ SecretMismatch(req.expected_secret, req.secret)
    /\ WebhookReturns("Telegram webhook secret mismatch", 0)

\* Update.de_json raises: caught by "except Exception"
WebhookUpdateFails ==
    /\ req.pc = "webhook"
    /\ req.telegram_application
    /\ req.body_is_json
    /\ ~SecretMismatch(req.expected_secret, req.secret)
    /\ ~req.update_parses
    /\ WebhookReturns("Telegram webhook processing failed", 0)

\* await telegram_application.process_update(update) returns
WebhookProcessesUpdate ==
    /\ req.pc = "webhook"
    /\ req.telegram_application
    /\ req.body_is_json
    /\ ~SecretMismatch(req.expected_secret, req.secret)
    /\ req.update_parses
    /\ ~req.processing_fails
    /\ WebhookReturns("Telegram update received", 1)

\* process_update is called and raises: caught by "except Exception"
WebhookProcessingFails ==
    /\ req.pc = "webhook"
    /\ req.telegram_application
    /\ req.body_is_json
    /\ ~SecretMismatch(req.expected_secret, req.secret)
    /\ req.update_parses
    /\ req.processing_fails
    /\ WebhookReturns("Telegram webhook processing failed", 1)

NextWebhook ==
    \/ WebhookNoApplication
    \/ WebhookBodyFails
    \/ WebhookSecretMismatch
    \/ WebhookUpdateFails
    \/ WebhookProcessesUpdate
    \/ WebhookProcessingFails

SpecWebhook == InitWebhook /\ [][NextWebhook]_vars

\* C21: the webhook handler returns {ok: true} for every request; it calls
\* process_update only with a Telegram application in app.state and, when
\* TELEGRAM_SECRET is set (to a non-empty value), with a header equal to it;
\* with a wrong secret or without an application no update is processed.
C21_WebhookAlwaysOk ==
    /\ req.pc = "returned" =>
          /\ req.result = "ok"
          /\ req.processed > 0 =>
                /\ req.telegram_application
                /\ Truthy(req.expected_secret) => req.secret = req.expected_secret
          /\ (~req.telegram_application
              \/ (Truthy(req.expected_secret) /\ req.secret # req.expected_secret))
                => req.processed = 0
    /\ req.pc = "webhook" => ENABLED NextWebhook

C21_Witness ==
    /\ req.pc = "returned"
    /\ req.telegram_application
    /\ req.expected_secret = "secret"
    /\ req.secret = "bad"
    /\ req.update_parses
    /\ req.processed = 0
    /\ req.result = "ok"

-----------------------------------------------------------------------------
(* list_active_debts_as_of of transactions.py.  The debt transactions are a  *)
(* sequence in created_at order; the query keeps those dated on or before    *)
(* the target date and orders them by date, then created_at.                 *)

MaxDebtTxs == 3
MaxDebtDate == 3

Creditors == {"Ivan", "Petr"}

DebtTxs ==
    [date : 1..MaxDebtDate, type : {"income", "expense"}, amount : {50, 100},
     creditor : Creditors]

\* .lte("date", target_date).order("date").order("created_at")
RECURSIVE DebtRowsFrom(_, _, _)
DebtRowsFrom(txs, d, target_date) ==
    IF d > target_date THEN <<>>
    ELSE SelectSeq(txs, LAMBDA tx : tx.date = d)
         \o DebtRowsFrom(txs, d + 1, target_date)

NoDebtState == [amount |-> 0, debt_date |-> NoDate, closed_at |-> NoDate]

\* faulty variant: a debt that is taken again keeps its closing date
DebtStep_KeepsClosedAt(state, tx) ==
    LET delta == IF tx.type = "expense" THEN -tx.amount ELSE tx.amount
        previous == state.amount
        next_amount == previous + delta
    IN [amount |-> IF next_amount > 0 THEN next_amount ELSE 0,
        debt_date |-> IF previous <= 0 /\ next_amount > 0 THEN tx.date
                      ELSE state.debt_date,
        closed_at |-> IF previous > 0 /\ next_amount <= 0 THEN tx.date
                      ELSE state.closed_at]

\* the body of the loop over the rows, for the state of the row's creditor
DebtStep(state, tx) ==
    LET delta == IF tx.type = "expense" THEN -tx.amount ELSE tx.amount
        previous == state.amount
        next_amount == previous + delta
    IN [amount |-> IF next_amount > 0 THEN next_amount ELSE 0,
        debt_date |-> IF previous <= 0 /\ next_amount > 0 THEN tx.date
                      ELSE state.debt_date,
        closed_at |-> IF previous <= 0 /\ next_amount > 0 THEN NoDate
                      ELSE IF previous > 0 /\ next_amount <= 0 THEN tx.date
                      ELSE state.closed_at]

RECURSIVE DebtStates(_, _)
DebtStates(rows, states) ==
    IF rows = <<>> THEN states
    ELSE DebtStates(Tail(rows),
             [states EXCEPT ![Head(rows).creditor] = DebtStep(@, Head(rows))])

\* the active debts, as a set (the code sorts them by debt_date and creditor)
list_active_debts_as_of(txs, target_date) ==
    LET states == DebtStates(DebtRowsFrom(txs, 1, target_date),
                             [c \in Creditors |-> NoDebtState])
    IN {[creditor |-> c, amount |-> states[c].amount,
         debt_date |-> states[c].debt_date, closed_at |-> states[c].closed_at] :
          c \in {x \in Creditors :
                    /\ states[x].debt_date # NoDate
                    /\ states[x].debt_date <= target_date
                    /\ (states[x].closed_at = NoDate
                        \/ states[x].closed_at > target_date)}}

InitDebts ==
    /\ accounts = {}
    /\ categories = {}
    /\ transactions = {}
    /\ events = {}
    /\ daily_state = [d \in Dates |-> NoRow]
    /\ draft = NoDraft
    /\ nextId = 5
    /\ runs = 0
    /\ revisions = 0
    /\ \E txs \in SeqsUpTo(DebtTxs, MaxDebtTxs) : \E target_date \in 1..MaxDebtDate :
          req = [pc |-> "debts_as_of", txs |-> txs, target_date |-> target_date]
    /\ response = NoResponse

ListActiveDebts ==
    /\ req.pc = "debts_as_of"
    /\ req' = [req EXCEPT !.pc = "listed"]
    /\ response' = [kind |-> "active_debts",
                    debts |-> list_active_debts_as_of(req.txs, req.target_date)]
    /\ UNCHANGED <<store, draft, nextId, runs, revisions>>

NextDebts == ListActiveDebts

SpecDebts == InitDebts /\ [][NextDebts]_vars

\* the running debt amount of a creditor after the first n rows: a debt
\* income adds its amount, a debt expense subtracts it, clamped at 0
RECURSIVE RunningDebt(_, _, _)
RunningDebt(rows, n, creditor) ==
    IF n = 0 THEN 0
    ELSE LET before == RunningDebt(rows, n - 1, creditor)
             tx == rows[n]
             after == IF tx.creditor # creditor THEN before
                      ELSE IF tx.type = "expense" THEN before - tx.amount
                      ELSE before + tx.amount
         IN IF after > 0 THEN after ELSE 0

\* C22: a creditor is listed exactly when the running debt amount over the
\* debt transactions dated on or before D, in date order, is positive after
\* the last one, and is listed with that amount; a debt borrowed on B and
\* fully repaid on C > B is listed for B <= D < C and not for D >= C.
C22_ActiveDebts ==
    req.pc = "listed" =>
        LET rows == DebtRowsFrom(req.txs, 1, req.target_date)
            D == req.target_date
        IN /\ \A c \in Creditors :
                 LET amount == RunningDebt(rows, Len(rows), c)
                 IN /\ amount > 0 <=> \E debt \in response.debts : debt.creditor = c
                    /\ \A debt \in response.debts :
                          debt.creditor = c => debt.amount = amount
           /\ (/\ Len(req.txs) = 2
               /\ req.txs[1].type = "income" /\ req.txs[2].type = "expense"
               /\ req.txs[1].creditor = req.txs[2].creditor
               /\ req.txs[1].amount = req.txs[2].amount
               /\ req.txs[1].date < req.txs[2].date) =>
                 IF req.txs[1].date <= D /\ D < req.txs[2].date
                 THEN response.debts =
                         {[creditor |-> req.txs[1].creditor,
                           amount |-> req.txs[1].amount,
                           debt_date |-> req.txs[1].date, closed_at |-> NoDate]}
                 ELSE response.debts = {}

C22_Witness ==
    /\ req.pc = "listed"
    /\ Len(req.txs) = 3
    /\ req.txs[1].type = "income" /\ req.txs[1].date = 1
    /\ req.txs[2].type = "expense" /\ req.txs[2].date = 2
    /\ req.txs[3].type = "income" /\ req.txs[3].date = 3
    /\ req.txs[1].creditor = req.txs[2].creditor
    /\ req.txs[2].creditor = req.txs[3].creditor
    /\ req.txs[1].amount = req.txs[2].amount
    /\ req.target_date = 3
    /\ \E debt \in response.debts : debt.debt_date = 3 /\ debt.closed_at = NoDate

-----------------------------------------------------------------------------
(* create_transaction called by the transaction routes, with the kinds       *)
(* goal_transfer and debt                                                    *)

MaxTxCalls == 2

GoalId == 7

TxRequests ==
    [type : {"income", "expense", "transfer"},
     kind : {"normal", "transfer", "goal_transfer", "debt"},
     amount : {[t |-> "num", v |-> 100]}, date : {1},
     account_id : {1}, to_account_id : {NoId, 1, 2},
     category_id : {NoId, 3}, goal_id : {NoId, GoalId}]

\* the checks of create_transaction before its insert, with those of the
\* kinds goal_transfer and debt: "" or the detail of the HTTPException
CreateTransactionRejection(accs, cats, p) ==
    IF TxRejection(accs, cats, p) # "" THEN TxRejection(accs, cats, p)
    ELSE IF p.kind = "goal_transfer" /\ p.goal_id = NoId
    THEN "goal_id is required for goal transfers"
    ELSE IF p.kind = "goal_transfer" /\ p.category_id # NoId
    THEN "Goal transfers cannot have a category"
    ELSE IF p.kind = "debt" /\ p.goal_id # NoId
    THEN "Debt operations cannot have a goal"
    ELSE ""

\* the balance events of the transaction: reason goal_transfer for a goal
\* transfer
CreatedEvents(tx, firstId) ==
    IF tx.kind = "goal_transfer"
    THEN {[e EXCEPT !.reason = "goal_transfer"] : e \in TxEvents(tx, firstId)}
    ELSE TxEvents(tx, firstId)

InitTransactions ==
    /\ accounts = InitAccounts
    /\ categories = InitCategories
    /\ transactions = {}
    /\ events = {}
    /\ daily_state = [d \in Dates |-> NoRow]
    /\ draft = NoDraft
    /\ nextId = 10
    /\ runs = 0
    /\ revisions = 0
    /\ req = [pc |-> "transactions_api", calls |-> 0]
    /\ response = NoResponse

\* create_transaction(user_id, payload)
CreateTransaction ==
    /\ req.pc = "transactions_api"
    /\ req.calls < MaxTxCalls
    /\ req' = [req EXCEPT !.calls = @ + 1]
    /\ \E p \in TxRequests :
          LET rejection == CreateTransactionRejection(accounts, categories, p)
              tx == [id |-> nextId, run |-> 0, op |-> 0, type |-> p.type,
                     kind |-> p.kind, amount |-> p.amount, date |-> p.date,
                     account_id |-> p.account_id,
                     to_account_id |-> p.to_account_id,
                     category_id |-> p.category_id, goal_id |-> p.goal_id]
          IN IF rejection # ""
             THEN /\ response' = [kind |-> "create_transaction", payload |-> p,
                                  code |-> 400, message |-> rejection, id |-> NoId]
                  /\ UNCHANGED <<transactions, events, nextId>>
             ELSE /\ transactions' = transactions \cup {tx}
                  /\ events' = events \cup CreatedEvents(tx, nextId + 1)
                  /\ nextId' = nextId + 1 + EventCount(p)
                  /\ response' = [kind |-> "create_transaction", payload |-> p,
                                  code |-> 200, message |-> "", id |-> nextId]
    /\ UNCHANGED <<accounts, categories, daily_state, draft, runs, revisions>>

NextTransactions == CreateTransaction

SpecTransactions == InitTransactions /\ [][NextTransactions]_vars

\* C23: create_transaction with kind goal_transfer, a goal_id and no category
\* (type income or expense, an account of the budget) succeeds and inserts
\* one transaction and one balance event with reason goal_transfer that
\* carries the transaction's id.
C23_GoalTransferSucceeds ==
    (/\ req.pc = "transactions_api"
     /\ response.kind = "create_transaction"
     /\ response.payload.kind = "goal_transfer"
     /\ response.payload.type \in {"income", "expense"}
     /\ response.payload.goal_id # NoId
     /\ response.payload.category_id = NoId
     /\ response.payload.to_account_id = NoId) =>
        /\ response.code = 200
        /\ \E t \in transactions : t.id = response.id
        /\ Cardinality({e \in events : e.transaction_id = response.id
                                       /\ e.reason = "goal_transfer"}) = 1

-----------------------------------------------------------------------------
(* get_debts_as_of on its own: daily_state rows on some of the dates and a   *)
(* target date                                                               *)

DebtRows ==
    {NoRow} \cup [present : {TRUE}, cards : {10, 20}, other : {0, 5}]

InitDebtTotals ==
    /\ accounts = {}
    /\ categories = {}
    /\ transactions = {}
    /\ events = {}
    /\ daily_state \in [1..MaxDebtDate -> DebtRows]
    /\ draft = NoDraft
    /\ nextId = 5
    /\ runs = 0
    /\ revisions = 0
    /\ req \in [pc : {"get_debts"}, target_date : 1..MaxDebtDate]
    /\ response = NoResponse

GetDebtsAsOf ==
    /\ req.pc = "get_debts"
    /\ req' = [req EXCEPT !.pc = "got_debts"]
    /\ response' = [kind |-> "debts",
                    totals |-> get_debts_as_of(daily_state, req.target_date)]
    /\ UNCHANGED <<store, draft, nextId, runs, revisions>>

NextDebtTotals == GetDebtsAsOf

SpecDebtTotals == InitDebtTotals /\ [][NextDebtTotals]_vars

\* C24: get_debts_as_of(D) returns the totals of the daily_state row with
\* the greatest date not after D, and zeros when there is no such row.
C24_LastKnownDebts ==
    req.pc = "got_debts" =>
        LET known == {d \in 1..req.target_date : daily_state[d].present}
        IN IF known = {}
           THEN response.totals.cards = 0 /\ response.totals.other = 0
           ELSE \E d \in known :
                   /\ \A e \in known : e <= d
                   /\ response.totals.cards = daily_state[d].cards
                   /\ response.totals.other = daily_state[d].other

C24_Witness ==
    /\ req.pc = "got_debts"
    /\ req.target_date = 2
    /\ daily_state[1].present /\ daily_state[1].cards = 10 /\ daily_state[1].other = 5
    /\ ~daily_state[2].present
    /\ daily_state[3].present /\ daily_state[3].cards = 20
    /\ response.totals.cards = 10
    /\ response.totals.other = 5

-----------------------------------------------------------------------------
(* Strict validation against the later steps of apply                       *)

\* the stored draft passes the strict validation of step 2 against the
\* accounts and categories the run began with
PassedStrictValidation ==
    ValidationOf(draft, AccountsBefore, CategoriesBefore) = NoError

\* C25: an apply whose operations all pass the strict validation (no balance
\* adjustment, no debts block, no store failure) ends with the draft applied
\* and one transaction per operation: no later step rejects an operation.
C25_ValidationSufficient ==
    (/\ ApplyEnded
     /\ PassedStrictValidation
     /\ draft.balance_adjustments = <<>>
     /\ ~draft.debts.present) =>
        /\ draft.status = "applied"
        /\ \A j \in DOMAIN draft.ops :
              Cardinality({t \in transactions : t.run = req.run /\ t.op = j}) = 1

-----------------------------------------------------------------------------
(* A balance adjustment for an account that does not exist                  *)

-----------------------------------------------------------------------------
(* Fixing a failed draft by a revise                                        *)

\* an apply has left the draft failed
FailedByApply == draft.status = "failed" /\ draft.apply_error # NoApplyError

\* the last request was a revise that succeeded (the run of req is the apply
\* before it)
ReviseSucceeded == revisions' = revisions + 1 /\ response'.kind = "ok"

-----------------------------------------------------------------------------
(* The order of the deletes of _rollback_statement_apply                    *)

RollbackPcs ==
    {"rollback_transactions", "rollback_transaction_rows", "rollback_adjustments",
     "rollback_accounts", "rollback_categories", "rollback_debts"}

-----------------------------------------------------------------------------
(* Another request of the same user creates an account or a category in the *)
(* budget while an apply is between the load of its name maps and the end   *)
(* of its entity creation                                                   *)

\* the tag of the rows the other request creates
OtherRequestRun == MaxRuns + 1

ApplyMaterializing == req.pc \in {"categories", "accounts"}

\* POST /categories with the name of a missing category of the draft
OtherRequestCreatesCategory ==
    /\ ApplyMaterializing
    /\ \E j \in DOMAIN req.payload.missing_categories :
          LET name == Strip(OrEmpty(req.payload.missing_categories[j].name))
          IN /\ name # ""
             /\ Lower(name) \notin {Lower(c.name) : c \in categories}
             /\ categories' = categories \cup
                    {[id |-> nextId, name |-> name, type |-> DefaultCategoryType,
                      run |-> OtherRequestRun]}
    /\ nextId' = nextId + 1
    /\ UNCHANGED <<accounts, transactions, events, daily_state, draft, runs,
                   revisions, req, response>>

\* POST /accounts with the name of a missing account of the draft
OtherRequestCreatesAccount ==
    /\ ApplyMaterializing
    /\ \E j \in DOMAIN req.payload.missing_accounts :
          LET name == Strip(OrEmpty(req.payload.missing_accounts[j].name))
          IN /\ name # ""
             /\ Lower(name) \notin {Lower(a.name) : a \in accounts}
             /\ accounts' = accounts \cup
                    {[id |-> nextId, name |-> name, kind |-> "bank",
                      run |-> OtherRequestRun]}
    /\ nextId' = nextId + 1
    /\ UNCHANGED <<categories, transactions, events, daily_state, draft, runs,
                   revisions, req, response>>

NextConcurrent ==
    \/ Next
    \/ OtherRequestCreatesCategory
    \/ OtherRequestCreatesAccount

SpecConcurrent == Init /\ [][NextConcurrent]_vars

\* C29: apply creates no account and no category whose name (compared in
\* lower case) another row of the budget already has, also when that row was
\* created by another request after apply loaded its lists.
C29_NoSecondEntityOfAName ==
    /\ \A a \in accounts : \A b \in accounts :
          (a.run \in 1..MaxRuns /\ Lower(a.name) = Lower(b.name)) => a = b
    /\ \A c \in categories : \A d \in categories :
          (c.run \in 1..MaxRuns /\ Lower(c.name) = Lower(d.name)) => c = d

-----------------------------------------------------------------------------
(* Two apply requests (confirm=true) on the same draft, interleaved.  Each  *)
(* request has its own locals req[r] and its own response[r]; the draft row *)
(* and the store are shared.  The drafts name existing accounts and an      *)
(* existing category, so steps 3 and 4 create nothing and every operation  *)
(* that passes the strict validation has its account (no ValueError in     *)
(* step 5); they carry no balance adjustments and no debts block.           *)

Requests == {1, 2}

RaceOps ==
    {o \in RawOps : o.type \in {"expense", "income"} /\ o.category = "Food"}

RacePayloads ==
    {p \in LLMPayloads :
        /\ \A j \in DOMAIN p.operations : p.operations[j] \in RaceOps
        /\ ~p.debts.present
        /\ p.balance_adjustments = <<>>}

RaceReq ==
    [pc |-> "start", i |-> 0, ops |-> <<>>, account_map |-> <<>>,
     category_map |-> <<>>, created_transaction_ids |-> {}, exc |-> ""]

InitRace ==
    /\ accounts = InitAccounts
    /\ categories = InitCategories
    /\ transactions = {}
    /\ events = {}
    /\ daily_state = [d \in Dates |-> NoRow]
    /\ \E p \in RacePayloads :
          draft = DraftPayloadOf(p, InitAccounts, InitCategories)
    /\ nextId = 5
    /\ runs = 0
    /\ revisions = 0
    /\ req = [r \in Requests |-> RaceReq]
    /\ response = [r \in Requests |-> NoResponse]

\* get_statement_draft, the status guard, the load of the name maps and the
\* strict validation
RaceApplyStart(r) ==
    /\ req[r].pc = "start"
    /\ IF draft.status = "applied"
       THEN /\ response' = [response EXCEPT ![r] =
                   _statement_apply_error_response("already_applied", 0, "", "",
                                                   409, r)]
            /\ req' = [req EXCEPT ![r].pc = "done"]
            /\ UNCHANGED draft
       ELSE IF draft.status = "failed"
       THEN /\ response' = [response EXCEPT ![r] =
                   _statement_apply_error_response(
                       draft.apply_error.reason, draft.apply_error.operation_index,
                       draft.apply_error.field, draft.apply_error.message, 409, r)]
            /\ req' = [req EXCEPT ![r].pc = "done"]
            /\ UNCHANGED draft
       ELSE LET validation_error == ValidationOf(draft, accounts, categories)
            IN IF validation_error # NoError
               THEN /\ draft' = [draft EXCEPT
                                    !.status = "failed",
                                    !.apply_error =
                                        [reason |-> validation_error.reason,
                                         operation_index |->
                                             validation_error.operation_index,
                                         field |-> validation_error.field,
                                         message |-> ""]]
                    /\ response' = [response EXCEPT ![r] =
                           _statement_apply_error_response(
                               validation_error.reason,
                               validation_error.operation_index,
                               validation_error.field, "", 400, r)]
                    /\ req' = [req EXCEPT ![r].pc = "done"]
               ELSE /\ req' = [req EXCEPT ![r] =
                           [RaceReq EXCEPT
                               !.pc = "transactions", !.i = 1,
                               !.ops = _normalize_statement_transactions(draft.ops),
                               !.account_map = _account_name_map(accounts),
                               !.category_map = _category_name_map(categories)]]
                    /\ UNCHANGED <<draft, response>>
    /\ UNCHANGED <<store, nextId, runs, revisions>>

\* one pass of the loop of step 5 in request r; an HTTPException of
\* create_transaction leaves the handler
RaceCreateTransaction(r) ==
    /\ req[r].pc = "transactions"
    /\ LET item == Resolved(req[r].ops[req[r].i], req[r].account_map,
                            req[r].category_map)
           tx_payload == TxPayload(item)
           last == req[r].i = Len(req[r].ops)
           tx == [id |-> nextId, run |-> r, op |-> req[r].i,
                  type |-> tx_payload.type, kind |-> tx_payload.kind,
                  amount |-> tx_payload.amount, date |-> tx_payload.date,
                  account_id |-> tx_payload.account_id,
                  to_account_id |-> tx_payload.to_account_id,
                  category_id |-> tx_payload.category_id]
       IN IF TxRejection(accounts, categories, tx_payload) # ""
          THEN /\ req' = [req EXCEPT ![r].pc = "done", ![r].exc = "HTTPException"]
               /\ response' = [response EXCEPT ![r] =
                      Raised(400, TxRejection(accounts, categories, tx_payload), r)]
               /\ UNCHANGED <<transactions, events, nextId>>
          ELSE /\ transactions' = transactions \cup {tx}
               /\ events' = events \cup TxEvents(tx, nextId + 1)
               /\ nextId' = nextId + 1 + EventCount(tx_payload)
               /\ req' = [req EXCEPT
                             ![r].pc = IF last THEN "commit" ELSE "transactions",
                             ![r].i = IF last THEN 1 ELSE req[r].i + 1,
                             ![r].created_transaction_ids = @ \cup {nextId}]
               /\ UNCHANGED response
    /\ UNCHANGED <<accounts, categories, daily_state, draft, runs, revisions>>

\* update_statement_draft(status="applied"): no condition on the stored status
RaceCommit(r) ==
    /\ req[r].pc = "commit"
    /\ draft' = [draft EXCEPT !.status = "applied"]
    /\ response' = [response EXCEPT ![r] =
           [NoResponse EXCEPT !.kind = "ok", !.code = 200, !.run = r]]
    /\ req' = [req EXCEPT ![r].pc = "done"]
    /\ UNCHANGED <<store, nextId, runs, revisions>>

NextRace ==
    \E r \in Requests :
        \/ RaceApplyStart(r)
        \/ RaceCreateTransaction(r)
        \/ RaceCommit(r)

SpecRace == InitRace /\ [][NextRace]_vars

\* C30: whatever the interleaving of two apply requests on the same draft,
\* each operation of the draft has at most one transaction in the store, and
\* a request that got the conflict response has created nothing.
C30_OneTransactionPerOperation ==
    /\ \A j \in DOMAIN draft.ops :
          Cardinality({t \in transactions : t.op = j}) <= 1
    /\ \A r \in Requests :
          response[r].code = 409 => {t \in transactions : t.run = r} = {}

-----------------------------------------------------------------------------
(* create_transaction step by step: the insert of the transaction, the      *)
(* calls of create_balance_event (which raises HTTPException for an         *)
(* APIError and RuntimeError when the insert returns no row) and the        *)
(* compensation in the except HTTPException branch                          *)

LedgerIdle == [pc |-> "idle", calls |-> 0, tx |-> NoId, payload |-> NoneStr, exc |-> ""]

InitLedger ==
    /\ accounts = InitAccounts
    /\ categories = InitCategories
    /\ transactions = {}
    /\ events = {}
    /\ daily_state = [d \in Dates |-> NoRow]
    /\ draft = NoDraft
    /\ nextId = 10
    /\ runs = 0
    /\ revisions = 0
    /\ req = LedgerIdle
    /\ response = NoResponse

LedgerReturns(code, message, id) ==
    [kind |-> "create_transaction", code |-> code, message |-> message, id |-> id]

\* the checks and the insert into transactions
LedgerInsertTransaction ==
    /\ req.pc = "idle"
    /\ req.calls < MaxTxCalls
    /\ \E p \in TxRequests :
          LET rejection == CreateTransactionRejection(accounts, categories, p)
              tx == [id |-> nextId, run |-> 0, op |-> 0, type |-> p.type,
                     kind |-> p.kind, amount |-> p.amount, date |-> p.date,
                     account_id |-> p.account_id,
                     to_account_id |-> p.to_account_id,
                     category_id |-> p.category_id, goal_id |-> p.goal_id]
          IN IF rejection # ""
             THEN /\ req' = [req EXCEPT !.calls = @ + 1, !.tx = NoId, !.exc = "HTTPException"]
                  /\ response' = LedgerReturns(400, rejection, NoId)
                  /\ UNCHANGED <<transactions, nextId>>
             ELSE /\ transactions' = transactions \cup {tx}
                  /\ nextId' = nextId + 1
                  /\ req' = [req EXCEPT !.pc = "event", !.calls = @ + 1,
                                        !.tx = nextId, !.payload = p, !.exc = ""]
                  /\ UNCHANGED response
    /\ UNCHANGED <<accounts, categories, events, daily_state, draft, runs, revisions>>

LedgerTx == CHOOSE t \in transactions : t.id = req.tx

LedgerEventsWritten == {e \in events : e.transaction_id = req.tx}

\* create_balance_event returns: the next event of the transaction is written
LedgerCreateBalanceEvent ==
    /\ req.pc = "event"
    /\ LET all == CreatedEvents(LedgerTx, nextId - Cardinality(LedgerEventsWritten))
           event == CHOOSE e \in all : e.id = nextId
           last == Cardinality(LedgerEventsWritten) + 1 = EventCount(req.payload)
       IN /\ events' = events \cup {event}
          /\ nextId' = nextId + 1
          /\ IF last
             THEN /\ req' = [req EXCEPT !.pc = "idle"]
                  /\ response' = LedgerReturns(200, "", req.tx)
             ELSE /\ req' = req
                  /\ UNCHANGED response
    /\ UNCHANGED <<accounts, categories, transactions, daily_state, draft, runs,
                   revisions>>

\* create_balance_event raises HTTPException (the store answered APIError)
LedgerEventHTTPException ==
    /\ req.pc = "event"
    /\ req' = [req EXCEPT !.pc = "compensate", !.exc = "HTTPException"]
    /\ UNCHANGED <<store, draft, nextId, runs, revisions, response>>

\* create_balance_event raises RuntimeError (the insert returned no row):
\* "except HTTPException" does not catch it
LedgerEventRuntimeError ==
    /\ req.pc = "event"
    /\ req' = [req EXCEPT !.pc = "idle", !.exc = "RuntimeError"]
    /\ response' = LedgerReturns(500, "Failed to insert balance event", NoId)
    /\ UNCHANGED <<store, draft, nextId, runs, revisions>>

\* except HTTPException: the events (transfer) and the transaction are
\* deleted, the exception is raised again
LedgerCompensate ==
    /\ req.pc = "compensate"
    /\ events' = IF req.payload.type = "transfer"
                 THEN events \ LedgerEventsWritten ELSE events
    /\ transactions' = {t \in transactions : t.id # req.tx}
    /\ req' = [req EXCEPT !.pc = "idle"]
    /\ response' = LedgerReturns(400, "balance event rejected", NoId)
    /\ UNCHANGED <<accounts, categories, daily_state, draft, nextId, runs, revisions>>

\* a delete of the compensation raises: "except Exception: pass", the
\* HTTPException is raised again
LedgerCompensateFails ==
    /\ req.pc = "compensate"
    /\ \/ UNCHANGED <<events, transactions>>
       \/ /\ req.payload.type = "transfer"
          /\ events' = events \ LedgerEventsWritten
          /\ UNCHANGED transactions
    /\ req' = [req EXCEPT !.pc = "idle"]
    /\ response' = LedgerReturns(400, "balance event rejected", NoId)
    /\ UNCHANGED <<accounts, categories, daily_state, draft, nextId, runs, revisions>>

NextLedger ==
    \/ LedgerInsertTransaction
    \/ LedgerCreateBalanceEvent
    \/ LedgerEventHTTPException
    \/ LedgerEventRuntimeError
    \/ LedgerCompensate
    \/ LedgerCompensateFails

SpecLedger == InitLedger /\ [][NextLedger]_vars

\* C31: after any call of create_transaction, returned or raised, every
\* transaction in the store has all its balance events (two for a transfer,
\* one otherwise) and every balance event has its transaction.
C31_TransactionWithAllEventsOrNothing ==
    req.pc = "idle" =>
        /\ \A t \in transactions :
              Cardinality({e \in events : e.transaction_id = t.id})
                  = EventCount(t)
        /\ \A e \in events : \E t \in transactions : t.id = e.transaction_id

-----------------------------------------------------------------------------
(* Entity materialization and its rollback against the rows that exist      *)
(* before the apply.  Accounts carry active_from; list_accounts(as_of)      *)
(* leaves out the accounts that become active later.  create_account and    *)
(* create_category return the inserted row, or, when the insert returns no  *)
(* row, the newest row of that name found by their fallback select.         *)

Today == 1

FrameAccounts ==
    {[id |-> 1, name |-> "Tinkoff", kind |-> "bank", run |-> 0, active_from |-> d] : d \in Dates}

FrameMissingAccounts ==
    SeqsUpTo([name : {"Tinkoff", "Cash"}, kind : {"bank", "card"}], MaxCreate)

FrameMissingCategories == {<<>>, <<[name |-> "Food", type |-> "expense"]>>}

list_accounts(accs, as_of) == {a \in accs : a.active_from <= as_of}

FrameReq ==
    [pc |-> "start", i |-> 0, missing_accounts |-> <<>>, missing_categories |-> <<>>,
     account_map |-> <<>>, category_map |-> <<>>, created_account_ids |-> {},
     created_category_ids |-> {}, before |-> <<>>, exc |-> ""]

InitFrame ==
    /\ accounts \in {{}} \cup {{a} : a \in FrameAccounts}
    /\ categories \in {{}, InitCategories}
    /\ transactions = {}
    /\ events = {}
    /\ daily_state = [d \in Dates |-> NoRow]
    /\ draft = [NoDraft EXCEPT !.status = "draft"]
    /\ nextId = 5
    /\ runs = 0
    /\ revisions = 0
    /\ \E ma \in FrameMissingAccounts, mc \in FrameMissingCategories :
          req = [FrameReq EXCEPT !.missing_accounts = ma, !.missing_categories = mc]
    /\ response = NoResponse

FrameAfter(pc, r) ==
    IF pc = "start" /\ r.missing_categories # <<>> THEN "categories"
    ELSE IF pc \in {"start", "categories"} /\ r.missing_accounts # <<>> THEN "accounts"
    ELSE "later"

\* the lists and name maps of apply (as_of is today)
FrameApplyStart ==
    /\ req.pc = "start"
    /\ req' = [req EXCEPT
                  !.pc = FrameAfter("start", req), !.i = 1,
                  !.account_map = _account_name_map(list_accounts(accounts, Today)),
                  !.category_map = _category_name_map(categories),
                  !.before = <<accounts, categories>>]
    /\ UNCHANGED <<store, draft, nextId, runs, revisions, response>>

\* the newest row with that name, as the fallback select returns it
FallbackRow(rows, name) ==
    LET found == {r \in rows : r.name = name}
    IN {r \in found : \A x \in found : x.id <= r.id}

FrameCreateCategory ==
    /\ req.pc = "categories"
    /\ LET item == req.missing_categories[req.i]
           name == Strip(OrEmpty(item.name))
           last == req.i = Len(req.missing_categories)
           next_pc == IF last THEN FrameAfter("categories", req) ELSE "categories"
           next_i == IF last THEN 1 ELSE req.i + 1
       IN IF name = "" \/ Lower(name) \in DOMAIN req.category_map
          THEN /\ req' = [req EXCEPT !.pc = next_pc, !.i = next_i]
               /\ UNCHANGED <<categories, nextId>>
          ELSE \/ \* the insert returns the new row
                  /\ categories' = categories \cup
                         {[id |-> nextId, name |-> name,
                           type |-> DefaultCategoryType, run |-> 1]}
                  /\ nextId' = nextId + 1
                  /\ req' = [req EXCEPT
                                !.pc = next_pc, !.i = next_i,
                                !.created_category_ids = @ \cup {nextId},
                                !.category_map = MapSet(@, Lower(name), nextId)]
               \/ \* the insert returns no row and wrote none: fallback select
                  /\ UNCHANGED <<categories, nextId>>
                  /\ IF FallbackRow(categories, name) = {}
                     THEN req' = [req EXCEPT !.pc = "rollback_accounts",
                                             !.exc = "RuntimeError"]
                     ELSE \E row \in FallbackRow(categories, name) :
                             req' = [req EXCEPT
                                        !.pc = next_pc, !.i = next_i,
                                        !.created_category_ids = @ \cup {row.id},
                                        !.category_map = MapSet(@, Lower(name), row.id)]
    /\ UNCHANGED <<accounts, transactions, events, daily_state, draft, runs,
                   revisions, response>>

FrameCreateAccount ==
    /\ req.pc = "accounts"
    /\ LET item == req.missing_accounts[req.i]
           name == Strip(OrEmpty(item.name))
           kind == AccountKind(item)
           last == req.i = Len(req.missing_accounts)
           next_pc == IF last THEN "later" ELSE "accounts"
           next_i == IF last THEN 1 ELSE req.i + 1
           same_kind == {a \in accounts : a.kind = kind}
       IN IF name = "" \/ Lower(name) \in DOMAIN req.account_map
          THEN /\ req' = [req EXCEPT !.pc = next_pc, !.i = next_i]
               /\ UNCHANGED <<accounts, nextId>>
          ELSE \/ \* the insert returns the new row
                  /\ accounts' = accounts \cup
                         {[id |-> nextId, name |-> name, kind |-> kind,
                           run |-> 1, active_from |-> Today]}
                  /\ nextId' = nextId + 1
                  /\ req' = [req EXCEPT
                                !.pc = next_pc, !.i = next_i,
                                !.created_account_ids = @ \cup {nextId},
                                !.account_map = MapSet(@, Lower(name), nextId)]
               \/ \* the insert returns no row and wrote none: fallback select
                  /\ UNCHANGED <<accounts, nextId>>
                  /\ IF FallbackRow(same_kind, name) = {}
                     THEN req' = [req EXCEPT !.pc = "rollback_accounts",
                                             !.exc = "RuntimeError"]
                     ELSE \E row \in FallbackRow(same_kind, name) :
                             req' = [req EXCEPT
                                        !.pc = next_pc, !.i = next_i,
                                        !.created_account_ids = @ \cup {row.id},
                                        !.account_map = MapSet(@, Lower(name), row.id)]
    /\ UNCHANGED <<categories, transactions, events, daily_state, draft, runs,
                   revisions, response>>

\* steps 4 to 8 write no account and no category but "Prochee"; they end
\* with the commit
FrameLaterStepsCommit ==
    /\ req.pc = "later"
    /\ draft' = [draft EXCEPT !.status = "applied"]
    /\ req' = [req EXCEPT !.pc = "done"]
    /\ response' = [NoResponse EXCEPT !.kind = "ok", !.code = 200, !.run = 1]
    /\ UNCHANGED <<store, nextId, runs, revisions>>

\* or with a ValueError or another exception that the except branches catch
FrameLaterStepsFail ==
    /\ req.pc = "later"
    /\ \E exc \in {"ValueError", "Exception"} :
          req' = [req EXCEPT !.pc = "rollback_accounts", !.exc = exc]
    /\ UNCHANGED <<store, draft, nextId, runs, revisions, response>>

\* _rollback_statement_apply: accounts, then categories; the draft is failed
FrameRollbackAccounts ==
    /\ req.pc = "rollback_accounts"
    /\ accounts' = {a \in accounts : a.id \notin req.created_account_ids}
    /\ req' = [req EXCEPT !.pc = "rollback_categories"]
    /\ UNCHANGED <<categories, transactions, events, daily_state, draft, nextId,
                   runs, revisions, response>>

FrameRollbackCategories ==
    /\ req.pc = "rollback_categories"
    /\ categories' = {c \in categories : c.id \notin req.created_category_ids}
    /\ draft' = [draft EXCEPT !.status = "failed"]
    /\ req' = [req EXCEPT !.pc = "done"]
    /\ response' = _statement_apply_error_response(
                       IF req.exc = "ValueError" THEN "invalid_operation_payload"
                       ELSE "internal_error", 0, "", "",
                       IF req.exc = "ValueError" THEN 400 ELSE 500, 1)
    /\ UNCHANGED <<accounts, transactions, events, daily_state, nextId, runs,
                   revisions>>

NextFrame ==
    \/ FrameApplyStart
    \/ FrameCreateCategory
    \/ FrameCreateAccount
    \/ FrameLaterStepsCommit
    \/ FrameLaterStepsFail
    \/ FrameRollbackAccounts
    \/ FrameRollbackCategories

SpecFrame == InitFrame /\ [][NextFrame]_vars

\* C32: an apply and its rollback leave every account and every category
\* that existed before the apply in the store, unchanged.
C32_ExistingRowsKept ==
    req.pc # "start" =>
        /\ \A a \in req.before[1] : a \in accounts
        /\ \A c \in req.before[2] : c \in categories

-----------------------------------------------------------------------------
(* Transfers and the balances of the accounts                               *)

RECURSIVE SumDeltas(_)
SumDeltas(evs) ==
    IF evs = {} THEN 0
    ELSE LET e == CHOOSE x \in evs : TRUE
         IN e.delta + SumDeltas(evs \ {e})

\* get_balances_as_of summed over the accounts of the budget
TotalBalanceAsOf(evs, accs, target_date) ==
    SumDeltas({e \in evs : e.date <= target_date
                           /\ e.account_id \in {a.id : a \in accs}})

TransferMalformed(p) ==
    \/ p.account_id = NoId
    \/ p.to_account_id = NoId
    \/ p.account_id = p.to_account_id
    \/ p.category_id # NoId

-----------------------------------------------------------------------------
(* Amounts: from the strict validation of apply to the balance event of     *)
(* create_transaction.  The amounts of this specification count hundredths  *)
(* of a unit, so that 150 is 1.5 and int() has something to truncate.       *)

MaxCents == 150

AmountCents == {c \in -MaxCents..MaxCents : c % 25 = 0}

DraftAmounts ==
    {[t |-> "num", v |-> c] : c \in AmountCents}
        \cup {[t |-> "str", v |-> 100], [t |-> "bool", v |-> 100],
              [t |-> "none", v |-> 0]}

\* int(x): truncation towards zero of an amount counted in hundredths
IntOfCents(c) == IF c >= 0 THEN c \div 100 ELSE -((-c) \div 100)

\* faulty variant: the sign of the amount is dropped first
TxDelta_OfAbs(tx_type, cents) ==
    IF tx_type = "income" THEN IntOfCents(Abs(cents)) ELSE -IntOfCents(Abs(cents))

\* delta = amount if tx_type == "income" else -amount, with amount = int(...)
TxDelta(tx_type, cents) ==
    IF tx_type = "income" THEN IntOfCents(cents) ELSE -IntOfCents(cents)

AmountsCategories ==
    InitCategories \cup {[id |-> 5, name |-> "Salary", type |-> "income", run |-> 0]}

AmountsResponse(code, field) == [kind |-> "apply", code |-> code, field |-> field]

InitAmounts ==
    /\ accounts = InitAccounts
    /\ categories = AmountsCategories
    /\ transactions = {}
    /\ events = {}
    /\ daily_state = [d \in Dates |-> NoRow]
    /\ draft = NoDraft
    /\ nextId = 10
    /\ runs = 0
    /\ revisions = 0
    /\ \E type \in {"income", "expense", "commission"}, amount \in DraftAmounts,
          category \in {"Food", "Salary"} :
          req = [pc |-> "validate",
                 item |-> NormalizeOne([date |-> 1, amount |-> amount, type |-> type,
                                        account |-> "Tinkoff", category |-> category,
                                        counterparty |-> NoneStr],
                                       _account_name_map(InitAccounts),
                                       _category_name_map(AmountsCategories))]
    /\ response = AmountsResponse(0, "")

\* step 2 of apply on the one operation of the draft
AmountsValidate ==
    /\ req.pc = "validate"
    /\ LET error == _validate_apply_operations(<<req.item>>,
                        _account_name_map(accounts),
                        _category_name_map(categories), <<>>, <<>>)
       IN IF error # NoError
          THEN /\ req' = [req EXCEPT !.pc = "idle"]
               /\ response' = AmountsResponse(400, error.field)
          ELSE /\ req' = [req EXCEPT !.pc = "normalize"]
               /\ UNCHANGED response
    /\ UNCHANGED <<store, draft, nextId, runs, revisions>>

AmountsNormalize ==
    /\ req.pc = "normalize"
    /\ req' = [req EXCEPT !.pc = "transaction",
                          !.item = _normalize_statement_transactions(<<req.item>>)[1]]
    /\ UNCHANGED <<store, draft, nextId, runs, revisions, response>>

\* step 5 of apply on the operation: create_transaction writes the row and
\* its balance event, or raises the HTTPException of its checks
AmountsCreateTransaction ==
    /\ req.pc = "transaction"
    /\ LET tx_payload == TxPayload(req.item)
           rejection == TxRejection(accounts, categories, tx_payload)
       IN IF rejection # ""
          THEN /\ req' = [req EXCEPT !.pc = "idle"]
               /\ response' = AmountsResponse(400, rejection)
               /\ UNCHANGED <<transactions, events, nextId>>
          ELSE /\ transactions' = transactions \cup
                     {[id |-> nextId, type |-> tx_payload.type,
                       amount |-> tx_payload.amount, date |-> tx_payload.date,
                       account_id |-> tx_payload.account_id]}
               /\ events' = events \cup
                     {[id |-> nextId + 1, transaction_id |-> nextId,
                       account_id |-> tx_payload.account_id,
                       delta |-> TxDelta(tx_payload.type, tx_payload.amount.v),
                       reason |-> "transaction", date |-> tx_payload.date]}
               /\ nextId' = nextId + 2
               /\ req' = [req EXCEPT !.pc = "idle"]
               /\ response' = AmountsResponse(200, "")
    /\ UNCHANGED <<accounts, categories, daily_state, draft, runs, revisions>>

NextAmounts ==
    \/ AmountsValidate
    \/ AmountsNormalize
    \/ AmountsCreateTransaction

SpecAmounts == InitAmounts /\ [][NextAmounts]_vars

\* C34: for every amount that the strict validation of apply accepts, the
\* balance event of an expense or fee has delta <= 0 and the one of an income
\* has delta >= 0, so the as-of balance of the account is never raised by an
\* expense or fee and never lowered by an income.
C34_DeltaSignFollowsType ==
    (req.pc = "idle" /\ response.code = 200) =>
        \A e \in events :
            /\ req.item.type \in {"expense", "fee"} =>
                  /\ e.delta <= 0
                  /\ TotalBalanceAsOf(events, accounts, e.date) <= 0
            /\ req.item.type = "income" =>
                  /\ e.delta >= 0
                  /\ TotalBalanceAsOf(events, accounts, e.date) >= 0


-----------------------------------------------------------------------------
(* The text of an unexpected exception and the responses of apply           *)

\* C35: when apply fails on an unexpected store exception, no response for
\* that draft carries the text of the exception: the 500 response of the
\* failing apply and the 409 response of every later apply on the draft have
\* the reason internal_error and the generic message only.
C35_ExceptionTextNotExposed ==
    (response.kind = "statement_apply_failed" /\ response.reason = "internal_error") =>
        /\ response.code \in {500, 409}
        /\ response.message = "Failed to apply statement draft"

-----------------------------------------------------------------------------
(* Operation types: from the contract validation through the resolver to    *)
(* the strict validation of apply, for a payload with one operation          *)

TypeValues ==
    {JNone, JStr("")}
        \cup {JStr(x) : x \in {"income", "INCOME", "expense", "transfer",
                               "commission", "COMMISSION", "fee", "gift"}}

TypesItems ==
    {ContractItem(d, a, ty, ac) :
        d \in {JNone, JStr("2024-03-01")}, a \in {JStr(""), JNum("500")},
        ty \in TypeValues, ac \in {JStr(" "), JStr("Tinkoff")}}

\* the operation as the resolver reads it from the decoded JSON
RawOpOf(item) ==
    [date |-> IF item.date = JStr("2024-03-01") THEN 1 ELSE NoDate,
     amount |-> IF item.amount = JNum("500") THEN Amount500
                ELSE [t |-> "str", v |-> 0],
     type |-> IF item.type.t = "null" THEN NoneStr ELSE item.type.v,
     account |-> IF item.account.t = "null" THEN NoneStr ELSE item.account.v,
     category |-> NoneStr, counterparty |-> NoneStr]

InitTypes ==
    /\ accounts = InitAccounts
    /\ categories = InitCategories
    /\ transactions = {}
    /\ events = {}
    /\ daily_state = [d \in Dates |-> NoRow]
    /\ draft = NoDraft
    /\ nextId = 10
    /\ runs = 0
    /\ revisions = 0
    /\ \E item \in TypesItems :
          req = [pc |-> "contract", item |-> item, status |-> "none",
                 normalized |-> <<>>]
    /\ response = [kind |-> "types", field |-> ""]

\* post_statement_draft, revise_statement_draft: _validate_draft_payload
TypesContract ==
    /\ req.pc = "contract"
    /\ LET errors == _validate_draft_payload(
                         [object |-> TRUE, present |-> required_keys,
                          value |-> GoodValue(JList(<<req.item>>))])
       IN req' = IF errors # <<>>
                 THEN [req EXCEPT !.pc = "idle", !.status = "failed"]
                 ELSE [req EXCEPT !.pc = "resolve"]
    /\ UNCHANGED <<store, draft, nextId, runs, revisions, response>>

\* _normalize_operations, then the draft is stored
TypesResolve ==
    /\ req.pc = "resolve"
    /\ \E status \in {"draft", "revised"} :
          req' = [req EXCEPT
                     !.pc = "apply", !.status = status,
                     !.normalized =
                         <<NormalizeOne(RawOpOf(req.item),
                                        _account_name_map(accounts),
                                        _category_name_map(categories))>>]
    /\ UNCHANGED <<store, draft, nextId, runs, revisions, response>>

\* step 2 of apply on the stored draft
TypesStrictValidation ==
    /\ req.pc = "apply"
    /\ req' = [req EXCEPT !.pc = "idle"]
    /\ response' = [kind |-> "types",
                    field |-> _validate_apply_operations(
                                  req.normalized, _account_name_map(accounts),
                                  _category_name_map(categories), <<>>, <<>>).field]
    /\ UNCHANGED <<store, draft, nextId, runs, revisions>>

NextTypes ==
    \/ TypesContract
    \/ TypesResolve
    \/ TypesStrictValidation

SpecTypes == InitTypes /\ [][NextTypes]_vars

\* C36: for a payload that passed the contract validation every operation
\* normalized by the resolver has a type in {income, expense, transfer, fee},
\* commission being mapped to fee, so the strict validation of apply never
\* reports the field type for a draft stored with status draft or revised.
C36_StoredTypesPassStrictCheck ==
    req.status \in {"draft", "revised"} =>
        /\ \A j \in DOMAIN req.normalized :
              /\ req.normalized[j].type \in {"income", "expense", "transfer", "fee"}
              /\ Lower(req.item.type.v) = "commission"
                    <=> req.normalized[j].type = "fee"
        /\ response.field # "type"

\* a draft whose operation was sent as COMMISSION went through step 2 of apply
C36_Witness ==
    /\ req.pc = "idle"
    /\ req.status = "revised"
    /\ req.item.type = JStr("COMMISSION")
    /\ req.normalized[1].type = "fee"
    /\ response.field = ""

-----------------------------------------------------------------------------
(* The resolver and the counterparty of an operation                        *)

CounterpartyOps ==
    [date : {1}, amount : {Amount500}, type : {"expense", "transfer"},
     account : {"Tinkoff"}, category : {NoneStr},
     counterparty : {NoneStr, " ", "Cash", "cash", "Savings"}]

CounterpartyPayloads ==
    [operations : UNION {[1..n -> CounterpartyOps] : n \in 1..MaxOps},
     accounts_to_create : {<<>>, <<[name |-> "Savings", type |-> "cash"]>>},
     categories_to_create : {<<>>}]

InitCounterparty ==
    /\ accounts \in {{}, InitAccounts}
    /\ categories = InitCategories
    /\ transactions = {}
    /\ events = {}
    /\ daily_state = [d \in Dates |-> NoRow]
    /\ draft = NoDraft
    /\ nextId = 5
    /\ runs = 0
    /\ revisions = 0
    /\ \E p \in CounterpartyPayloads :
          req = [pc |-> "resolve", payload |-> p,
                 result |-> _normalize_operations(
                                [p EXCEPT !.operations = <<>>], {}, {})]
    /\ response = NoResponse

CounterpartyResolve ==
    /\ req.pc = "resolve"
    /\ req' = [req EXCEPT !.pc = "resolved",
                          !.result = _normalize_operations(req.payload, accounts,
                                                           categories)]
    /\ UNCHANGED <<store, draft, nextId, runs, revisions, response>>

NextCounterparty == CounterpartyResolve

SpecCounterparty == InitCounterparty /\ [][NextCounterparty]_vars

\* the payload without its counterparties
WithoutCounterparties(p) ==
    [p EXCEPT !.operations =
        [j \in DOMAIN p.operations |-> [p.operations[j] EXCEPT !.counterparty = NoneStr]]]

\* C37: the resolver sets to_account_id and to_account_name of an operation
\* only for a transfer whose (trimmed) counterparty is, case-insensitively,
\* the name of an existing account, and then to that account's id and the
\* counterparty; otherwise both stay null.  missing_accounts is what it is
\* for the same payload without counterparties.
C37_CounterpartyOnlyResolvesExisting ==
    req.pc = "resolved" =>
        /\ \A j \in DOMAIN req.payload.operations :
              LET op == req.payload.operations[j]
                  n == req.result.normalized[j]
                  counterparty == Strip(OrEmpty(op.counterparty))
                  named == {a \in accounts : counterparty # ""
                                /\ Lower(a.name) = Lower(counterparty)}
              IN IF n.type = "transfer" /\ named # {}
                 THEN /\ n.to_account_id \in {a.id : a \in named}
                      /\ n.to_account_name = counterparty
                 ELSE /\ n.to_account_id = NoId
                      /\ n.to_account_name = NoneStr
        /\ req.result.missing_accounts =
              _normalize_operations(WithoutCounterparties(req.payload), accounts,
                                    categories).missing_accounts

\* a transfer to "cash" was resolved to the account Cash, and a transfer to
\* the unknown Savings was left without destination and not listed
C37_Witness ==
    /\ req.pc = "resolved"
    /\ Len(req.payload.operations) = 2
    /\ req.payload.operations[1].type = "transfer"
    /\ req.payload.operations[1].counterparty = "cash"
    /\ req.result.normalized[1].to_account_id = 2
    /\ req.payload.operations[2].type = "transfer"
    /\ req.payload.operations[2].counterparty = "Savings"
    /\ req.result.normalized[2].to_account_id = NoId
    /\ req.result.normalized[2].to_account_name = NoneStr
    /\ req.result.missing_accounts = <<>>

-----------------------------------------------------------------------------
(* Account kinds: from accounts_to_create through the resolver to the       *)
(* accounts that apply creates                                              *)

KindsToCreate ==
    [name : {"Savings", "Wallet"},
     type : {NoneStr, "", "cash", "Cash", "bank", "card", "credit"}]

KindsPayloads ==
    [operations : {<<[date |-> 1, amount |-> Amount500, type |-> "expense",
                      account |-> a, category |-> "Food",
                      counterparty |-> NoneStr]>> : a \in {"Tinkoff", "Wallet"}},
     accounts_to_create : SeqsUpTo(KindsToCreate, MaxCreate),
     categories_to_create : {<<>>}]

InitKinds ==
    /\ accounts = InitAccounts
    /\ categories = InitCategories
    /\ transactions = {}
    /\ events = {}
    /\ daily_state = [d \in Dates |-> NoRow]
    /\ draft = NoDraft
    /\ nextId = 5
    /\ runs = 0
    /\ revisions = 0
    /\ \E p \in KindsPayloads :
          req = [pc |-> "resolve", payload |-> p, missing_accounts |-> <<>>, i |-> 1,
                 account_map |-> _account_name_map(InitAccounts)]
    /\ response = NoResponse

\* post_statement_draft: the resolver's missing_accounts go into the draft
KindsResolve ==
    /\ req.pc = "resolve"
    /\ LET r == _normalize_operations(req.payload, accounts, categories)
       IN req' = [req EXCEPT
                     !.pc = IF r.missing_accounts = <<>> THEN "idle" ELSE "accounts",
                     !.missing_accounts = r.missing_accounts]
    /\ UNCHANGED <<store, draft, nextId, runs, revisions, response>>

\* apply: one turn of the loop over missing_accounts
KindsCreateAccount ==
    /\ req.pc = "accounts"
    /\ LET item == req.missing_accounts[req.i]
           name == Strip(OrEmpty(item.name))
           next_pc == IF req.i = Len(req.missing_accounts) THEN "idle" ELSE "accounts"
       IN IF name = "" \/ Lower(name) \in DOMAIN req.account_map
          THEN /\ req' = [req EXCEPT !.pc = next_pc, !.i = @ + 1]
               /\ UNCHANGED <<accounts, nextId>>
          ELSE /\ accounts' = accounts \cup
                      {[id |-> nextId, name |-> name, kind |-> AccountKind(item),
                        run |-> 1]}
               /\ nextId' = nextId + 1
               /\ req' = [req EXCEPT
                             !.pc = next_pc, !.i = @ + 1,
                             !.account_map = [k \in DOMAIN @ \cup {Lower(name)} |->
                                                 IF k = Lower(name) THEN nextId
                                                 ELSE @[k]]]
    /\ UNCHANGED <<categories, transactions, events, daily_state, draft, runs,
                   revisions, response>>

NextKinds ==
    \/ KindsResolve
    \/ KindsCreateAccount

SpecKinds == InitKinds /\ [][NextKinds]_vars

\* the type of the first accounts_to_create item of that name, NoneStr when
\* the name comes from an operation only
RequestedType(items, name) ==
    LET same == SelectSeq(items, LAMBDA x : Key(x.name) = Key(name))
    IN IF same = <<>> THEN NoneStr ELSE same[1].type

\* C38: every entry of missing_accounts that the resolver produces and every
\* account that apply creates has the kind cash or bank: cash only when cash
\* was asked for, bank when no kind was given and for every other value
\* (card for example).
C38_KindIsCashOrBank ==
    /\ \A j \in DOMAIN req.missing_accounts :
          LET m == req.missing_accounts[j]
              asked == RequestedType(req.payload.accounts_to_create, m.name)
          IN /\ m.kind \in {"cash", "bank"}
             /\ m.kind = "cash" <=> Key(asked) = "cash"
    /\ \A a \in accounts : a.run = 1 =>
          /\ a.kind \in {"cash", "bank"}
          /\ a.kind = "cash"
                <=> Key(RequestedType(req.payload.accounts_to_create, a.name)) = "cash"

\* Savings was asked for as a card and Wallet with no kind: both were created
\* as bank accounts
C38_Witness ==
    /\ req.pc = "idle"
    /\ req.payload.accounts_to_create =
          <<[name |-> "Savings", type |-> "card"], [name |-> "Wallet", type |-> NoneStr]>>
    /\ \E a \in accounts : a.name = "Savings" /\ a.kind = "bank" /\ a.run = 1
    /\ \E a \in accounts : a.name = "Wallet" /\ a.kind = "bank" /\ a.run = 1

-----------------------------------------------------------------------------
(* The Telegram bot conversation: user_data holds the state, the draft      *)
(* context, the JWT and the budget id of one chat.  req is user_data with    *)
(* two history fields (drafts created, drafts applied), response the last    *)
(* reply of the bot.                                                         *)

STATE_NONE == "None"
STATE_WAITING_STATEMENT_FILE == "WAITING_STATEMENT_FILE"
STATE_WAITING_STATEMENT_FEEDBACK == "WAITING_STATEMENT_FEEDBACK"
STATE_WAITING_STATEMENT_CONFIRM == "WAITING_STATEMENT_CONFIRM"

\* the drafts that one conversation creates; their ids are 1, 2, ...
MaxBotDrafts == 3

\* what a request to the API gives: an httpx.HTTPError, a body without a
\* draft id, or the draft draft_id
FailedResults == {[error |-> e, draft_id |-> NoId] : e \in {"http_error", "no_id"}}

\* a statement request creates the next draft
StatementResults(u) ==
    FailedResults \cup {[error |-> "", draft_id |-> u.drafts + 1] :
                            x \in {y \in {1} : u.drafts < MaxBotDrafts}}

\* a revise request updates the draft of the context
ReviseResults(u) == FailedResults \cup {[error |-> "", draft_id |-> u.draft_context]}

Documents == {"none", "image", "csv", "text", "pdf"}

Texts == {" ", "yes", "cancel", "fix"}

BotReply(text) == [kind |-> "bot", text |-> text]

InitBot ==
    /\ accounts = InitAccounts
    /\ categories = InitCategories
    /\ transactions = {}
    /\ events = {}
    /\ daily_state = [d \in Dates |-> NoRow]
    /\ draft = NoDraft
    /\ nextId = 5
    /\ runs = 0
    /\ revisions = 0
    /\ req = [state |-> STATE_NONE, draft_context |-> NoId, jwt |-> FALSE,
              budget_id |-> FALSE, drafts |-> 0, applied |-> {}]
    /\ response = BotReply("")

BotUnchanged == UNCHANGED <<store, draft, nextId, runs, revisions>>

command_statement ==
    /\ req' = [req EXCEPT !.state = STATE_WAITING_STATEMENT_FILE]
    /\ response' = BotReply("STATEMENT_COMMAND_TEXT")
    /\ BotUnchanged

\* handle_document for a message with document doc, when a needed login gives
\* a token (auth), a needed budget lookup gives a budget (budget), the text
\* of a PDF can be read (pdf) and the draft request gives result
DocumentOutcome(u, doc, auth, budget, pdf, result) ==
    IF u.state # STATE_WAITING_STATEMENT_FILE THEN [user_data |-> u, reply |-> ""]
    ELSE IF doc \notin {"csv", "text", "pdf"}
    THEN [user_data |-> u, reply |-> "INVALID_FILE_TEXT"]
    ELSE IF ~u.jwt /\ ~auth THEN [user_data |-> u, reply |-> "auth_error"]
    ELSE IF ~u.budget_id /\ ~budget
    THEN [user_data |-> [u EXCEPT !.jwt = TRUE], reply |-> "budget_error"]
    ELSE LET ready == [u EXCEPT !.jwt = TRUE, !.budget_id = TRUE]
         IN IF doc = "pdf" /\ ~pdf
            THEN [user_data |-> ready, reply |-> "PDF_UNSUPPORTED_TEXT"]
            ELSE IF result.error = "http_error"
            THEN [user_data |-> ready, reply |-> "draft_request_error"]
            ELSE IF result.error = "no_id"
            THEN [user_data |-> ready, reply |-> "no_draft"]
            ELSE [user_data |-> [ready EXCEPT
                                    !.draft_context = result.draft_id,
                                    !.state = STATE_WAITING_STATEMENT_CONFIRM,
                                    !.drafts = result.draft_id],
                  reply |-> "draft"]

handle_document ==
    /\ \E doc \in Documents, auth \in BOOLEAN, budget \in BOOLEAN, pdf \in BOOLEAN,
          result \in StatementResults(req) :
          LET o == DocumentOutcome(req, doc, auth, budget, pdf, result)
          IN /\ req' = o.user_data
             /\ response' = IF o.reply = "" THEN response ELSE BotReply(o.reply)
    /\ BotUnchanged

\* _apply_statement_draft, when the apply request succeeds (applied) or
\* raises an httpx.HTTPError
ApplyOutcome(u, applied) ==
    IF u.draft_context = NoId
    THEN [user_data |-> [u EXCEPT !.state = STATE_NONE], reply |-> "draft_not_found"]
    ELSE IF ~applied THEN [user_data |-> u, reply |-> "apply_error"]
    ELSE [user_data |-> [u EXCEPT !.draft_context = NoId,
                                  !.applied = @ \cup {u.draft_context}],
          reply |-> "CONFIRM_SUCCESS_TEXT"]

\* the revise request and what follows it in handle_feedback
ReviseOutcome(u, result) ==
    IF result.error = "http_error" THEN [user_data |-> u, reply |-> "revise_error"]
    ELSE IF result.error = "no_id"
    THEN [user_data |-> u, reply |-> "no_revised_draft"]
    ELSE [user_data |-> [u EXCEPT !.draft_context = result.draft_id,
                                  !.state = STATE_WAITING_STATEMENT_CONFIRM],
          reply |-> "draft"]

\* handle_feedback for a text message
FeedbackOutcome(u, text, applied, result) ==
    IF u.state \notin {STATE_WAITING_STATEMENT_FEEDBACK,
                       STATE_WAITING_STATEMENT_CONFIRM}
    THEN [user_data |-> u, reply |-> ""]
    ELSE IF u.draft_context = NoId
    THEN [user_data |-> [u EXCEPT !.state = STATE_NONE], reply |-> "draft_not_found"]
    ELSE IF ~u.jwt
    THEN [user_data |-> [u EXCEPT !.state = STATE_NONE], reply |-> "session_expired"]
    ELSE IF Strip(text) = "" THEN [user_data |-> u, reply |-> "need_text"]
    ELSE IF u.state = STATE_WAITING_STATEMENT_CONFIRM /\ Key(text) = "yes"
    THEN ApplyOutcome([u EXCEPT !.state = STATE_NONE], applied)
    ELSE IF u.state = STATE_WAITING_STATEMENT_CONFIRM /\ Key(text) = "cancel"
    THEN [user_data |-> [u EXCEPT !.draft_context = NoId, !.state = STATE_NONE],
          reply |-> "cancelled"]
    ELSE ReviseOutcome([u EXCEPT !.state = STATE_WAITING_STATEMENT_FEEDBACK], result)

handle_feedback ==
    /\ \E text \in Texts, applied \in BOOLEAN, result \in ReviseResults(req) :
          LET o == FeedbackOutcome(req, text, applied, result)
          IN /\ req' = o.user_data
             /\ response' = IF o.reply = "" THEN response ELSE BotReply(o.reply)
    /\ BotUnchanged

NextBot ==
    \/ command_statement
    \/ handle_document
    \/ handle_feedback

SpecBot == InitBot /\ [][NextBot]_vars

\* C39: after any sequence of /statement commands, document uploads and text
\* messages, a stored draft context implies that the state is
\* WAITING_STATEMENT_CONFIRM or WAITING_STATEMENT_FEEDBACK; in particular a
\* failed apply request does not leave the context stored with the state
\* cleared.
C39_StoredDraftHasFeedbackState ==
    req.draft_context # NoId =>
        req.state \in {STATE_WAITING_STATEMENT_CONFIRM,
                       STATE_WAITING_STATEMENT_FEEDBACK}

====
